---- MODULE Spec2Model ----
(***************************************************************************)
(* Universal Image Upscaler: the batch orchestrator of                     *)
(* components/image-processor.tsx (processImages, downloadAll) together    *)
(* with the HTTP handlers it calls, POST /api/process-image,               *)
(* POST /api/upscale-image, POST /api/download-all and                     *)
(* GET /api/serve-image (app/api/process-image/route.ts).                  *)
(*                                                                         *)
(* Spec and LiveSpec take each handler as a function of its request;       *)
(* StoreSpec also keeps the files of public/uploads and public/processed   *)
(* between requests, with the archive download and its cleanup timer.      *)
(* UtilSpec applies the exported image utilities to bounded arguments;     *)
(* LogSpec follows process-image requests handled in parallel from one     *)
(* await to the next, with the global console.log they share.              *)
(*                                                                         *)
(* Conventions                                                             *)
(*  - JavaScript numbers that are ratios (scaleFactor, the progress        *)
(*    percentage) are kept as exact fractions <<num, den>>, den > 0.       *)
(*  - JSON values are tagged records [t, v]; a JSON string carries a       *)
(*    record (Text or a URL) so that any two strings can be compared.     *)
(*  - Date.now() is a monotone clock `now`; a handler reads a value        *)
(*    between the current reading and MaxClock.                            *)
(***************************************************************************)
EXTENDS Integers, Sequences, FiniteSets, TLC

\* ---------------------------------------------------------------- bounds
\* largest number of files submitted to one batch run
MaxFiles == 3
\* largest reading of the millisecond clock
MaxClock == 1
\* largest number of cleanup timers pending at one time
MaxTimers == 1
\* largest number of files of a run whose files are kept (StoreSpec)
MaxStoredFiles == 2
\* largest width, height and maxDimension given to the resize computation
MaxPixels == 22
\* largest length of a file name or prefix given to the name functions
MaxNameLen == 3
\* largest number of process-image requests the server enters (LogSpec)
MaxRequests == 2

\* ------------------------------------------------------------- constants
MAX_FILE_SIZE == 50 * 1024 * 1024
DefaultMaxDimension == 1300
DefaultTargetSize == 2560
MinTargetSize == 1300
MaxProviderScale == 4
\* the bits of the significand of a JavaScript number
MantissaBits == 53
\* the bits multiplied in one step of a long multiplication
LimbBits == 13
\* substring(0, 50) of sanitizeFileName
NameLimit == 50

\* ------------------------------------------------------- value helpers
Max(a, b) == IF a >= b THEN a ELSE b

\* Math.round(n / d) for n >= 0, d > 0: the nearest integer, halves upward
RoundDiv(n, d) == (2 * n + d) \div (2 * d)

Dim(w, h) == [width |-> w, height |-> h]
MaxSide(d) == Max(d.width, d.height)

\* fractions
Frac(n, d) == <<n, d>>
FracOne == <<1, 1>>
FracLE(a, b) == a[1] * b[2] <= b[1] * a[2]
FracLT(a, b) == a[1] * b[2] < b[1] * a[2]
FracEQ(a, b) == a[1] * b[2] = b[1] * a[2]
\* (mutant) the factor is passed on as computed
FracMinIntNoClamp(a, k) == a
\* Math.min(a, k) for an integer k
FracMinInt(a, k) == IF a[1] > k * a[2] THEN <<k, 1>> ELSE a
\* JavaScript numbers are IEEE 754 doubles.  A positive double is kept as
\* [bits, exp]: the significand as MantissaBits bits, most significant (a 1)
\* first, read as an integer, times 2^exp.  Integers stay below 2^31: the
\* operands of a division are below 2^13.
\* n > 0 and d > 0 doubled until d <= n < 2 * d: n / d is kept times 2^-e
RECURSIVE Normalize(_, _, _)
Normalize(n, d, e) ==
    IF n < d THEN Normalize(2 * n, d, e - 1)
    ELSE IF n >= 2 * d THEN Normalize(n, 2 * d, e + 1)
    ELSE [n |-> n, d |-> d, e |-> e]

\* 2^j modulo d, and (n * 2^j) modulo d
RECURSIVE Pow2Mod(_, _)
Pow2Mod(j, d) ==
    IF j = 0 THEN 1 % d
    ELSE LET h == Pow2Mod(j \div 2, d)
         IN  (((h * h) % d) * (IF j % 2 = 1 THEN 2 ELSE 1)) % d
Remainder(n, d, j) == ((n % d) * Pow2Mod(j, d)) % d

\* the first k bits of n / d (d <= n < 2 * d) by long division, and what is
\* left of n after them
QuotientBits(n, d, k) ==
    [bits |-> [j \in 1..k |-> IF j = 1 THEN n \div d
                              ELSE (2 * Remainder(n, d, j - 2)) \div d],
     rest |-> Remainder(n, d, k - 1)]

\* the bits of bits + 1 (one bit longer when every bit was 1)
Increment(bits) ==
    LET zeros == {k \in 1..Len(bits) : bits[k] = 0}
    IN  IF zeros = {} THEN <<1>> \o [k \in 1..Len(bits) |-> 0]
        ELSE LET p == CHOOSE k \in zeros : \A j \in zeros : j <= k
             IN  [k \in 1..Len(bits) |->
                     IF k < p THEN bits[k] ELSE IF k = p THEN 1 ELSE 0]

\* the w low bits of an integer n >= 0; the bits of n; the integer of bits
FixedBits(n, w) == [j \in 1..w |-> (n \div 2^(w - j)) % 2]
BitLength(n) == CHOOSE k \in 0..30 : n < 2^k /\ (k = 0 \/ n >= 2^(k - 1))
IntBits(n) == FixedBits(n, BitLength(n))
RECURSIVE BitsInt(_)
BitsInt(bits) ==
    IF Len(bits) = 0 THEN 0
    ELSE 2 * BitsInt(SubSeq(bits, 1, Len(bits) - 1)) + bits[Len(bits)]

\* round to nearest, ties to even: bits (at least MantissaBits of them, the
\* first a 1) times 2^exp, as a double
RoundToDouble(bits, exp) ==
    LET L == Len(bits)
        keep == SubSeq(bits, 1, MantissaBits)
        guard == L > MantissaBits /\ bits[MantissaBits + 1] = 1
        sticky == \E k \in (MantissaBits + 2)..L : bits[k] = 1
        up == guard /\ (sticky \/ keep[MantissaBits] = 1)
        m == IF up THEN Increment(keep) ELSE keep
    IN  IF Len(m) > MantissaBits
        THEN [bits |-> SubSeq(m, 1, MantissaBits), exp |-> exp + (L - MantissaBits) + 1]
        ELSE [bits |-> m, exp |-> exp + (L - MantissaBits)]

\* n / d for integers n > 0, d > 0: the quotient to MantissaBits + 2 bits and
\* a bit for a remainder, rounded
FloatDiv(n, d) ==
    LET z == Normalize(n, d, 0)
        q == QuotientBits(z.n, z.d, MantissaBits + 2)
    IN  RoundToDouble(q.bits \o <<IF q.rest # 0 THEN 1 ELSE 0>>, z.e - (MantissaBits + 2))

\* bits * x + carry for an integer x >= 1, multiplied LimbBits bits at a
\* time from the low end; done is the number of bits already multiplied
RECURSIVE TimesInt(_, _, _, _)
TimesInt(bits, x, done, carry) ==
    IF done >= Len(bits) THEN IntBits(carry)
    ELSE LET hi == Len(bits) - done
             lo == Max(1, hi - LimbBits + 1)
             w == hi - lo + 1
             t == BitsInt(SubSeq(bits, lo, hi)) * x + carry
         IN  TimesInt(bits, x, done + w, t \div 2^w) \o FixedBits(t % 2^w, w)

\* x * f for an integer x >= 1 and a double f
FloatTimesInt(x, f) == RoundToDouble(TimesInt(f.bits, x, 0, 0), f.exp)

\* Math.round(f): the nearest integer, a half upward
MathRound(f) ==
    LET ni == MantissaBits + f.exp
    IN  IF ni < 0 THEN 0
        ELSE IF ni >= MantissaBits THEN BitsInt(f.bits) * 2^(f.exp)
        ELSE BitsInt(SubSeq(f.bits, 1, ni)) + f.bits[ni + 1]

\* Math.round(x * f) for an integer x >= 0 and the quotient f of two
\* positive integers
RoundMul(x, f) ==
    IF x = 0 THEN 0 ELSE MathRound(FloatTimesInt(x, FloatDiv(f[1], f[2])))

\* strings: a piece of text, or a URL
Text(s) == [text |-> s]
\* a file name `${pre}${ts}_${name}` under public/uploads or public/processed
\* (the ".png" of a processed file is left implicit)
Key(pre, ts, name) == [pre |-> pre, ts |-> ts, name |-> name]
\* `/api/serve-image/${key}`
ServeUrl(key) == [scheme |-> "path", route |-> "/api/serve-image", key |-> key]
\* the URL the provider answers with
ProviderUrl == [scheme |-> "http", host |-> "replicate.delivery"]
\* url.startsWith('http')
StartsWithHttp(u) == u.scheme = "http"

\* JSON values
JUndef == [t |-> "undefined"]
JNull == [t |-> "null"]
JStr(s) == [t |-> "str", v |-> s]
JArr(s) == [t |-> "arr", v |-> s]
JObj(f) == [t |-> "obj", v |-> f]
\* if (x) ...
Truthy(j) ==
    CASE j.t = "undefined" -> FALSE
      [] j.t = "null" -> FALSE
      [] j.t = "str" -> j.v # Text("")
      [] OTHER -> TRUE
\* typeof x === 'object'
TypeofObject(j) == j.t \in {"null", "arr", "obj"}
\* Object.keys(x).length
KeyCount(j) ==
    CASE j.t = "obj" -> Cardinality(DOMAIN j.v)
      [] j.t = "arr" -> Len(j.v)
      [] OTHER -> 0
\* x.k (undefined when absent)
Get(j, k) == IF j.t = "obj" /\ k \in DOMAIN j.v THEN j.v[k] ELSE JUndef
\* x === 'text'
IsText(j, s) == j.t = "str" /\ j.v = Text(s)

\* ------------------------------------------------- image utilities
\* supportedTypes of validateImageFile
SupportedTypes ==
    {"image/jpeg", "image/jpg", "image/png", "image/webp", "image/avif",
     "image/bmp", "image/tiff", "image/gif"}

\* (mutant) a file of exactly the maximum size is rejected
ValidateImageFileBelowLimit(file) ==
    IF file.type \notin SupportedTypes
    THEN [valid |-> FALSE, error |-> "Unsupported file type"]
    ELSE IF file.size >= MAX_FILE_SIZE
    THEN [valid |-> FALSE, error |-> "File too large"]
    ELSE [valid |-> TRUE, error |-> ""]

\* validateImageFile(file): the type is checked first, then the size
ValidateImageFile(file) ==
    IF file.type \notin SupportedTypes
    THEN [valid |-> FALSE, error |-> "Unsupported file type"]
    ELSE IF file.size > MAX_FILE_SIZE
    THEN [valid |-> FALSE, error |-> "File too large"]
    ELSE [valid |-> TRUE, error |-> ""]

\* (mutant) the resized axes are cut off instead of rounded
CalculateResizeDimensionsTruncating(originalSize, maxDimension) ==
    LET maxOriginal == MaxSide(originalSize)
    IN  IF maxOriginal <= maxDimension
        THEN [dimensions |-> originalSize, wasResized |-> FALSE]
        ELSE [dimensions |-> Dim((originalSize.width * maxDimension) \div maxOriginal,
                                 (originalSize.height * maxDimension) \div maxOriginal),
              wasResized |-> TRUE]

\* calculateResizeDimensions(originalSize, maxDimension)
CalculateResizeDimensions(originalSize, maxDimension) ==
    LET maxOriginal == MaxSide(originalSize)
        scaleFactor == Frac(maxDimension, maxOriginal)
    IN  IF maxOriginal <= maxDimension
        THEN [dimensions |-> originalSize, wasResized |-> FALSE]
        ELSE [dimensions |-> Dim(RoundMul(originalSize.width, scaleFactor),
                                 RoundMul(originalSize.height, scaleFactor)),
              wasResized |-> TRUE]

\* A string is the sequence of its characters; an optional argument is <<>>
\* (undefined) or <<value>>.
\* \s, and [a-zA-Z0-9_-]
IsWhitespace(c) == c = " "
IsNameChar(c) ==
    c \in {"a", "e", "g", "i", "m", "_", "-",
           "0", "1", "2", "3", "4", "5", "6", "7", "8", "9"}

\* the decimal digits of an integer n >= 0
RECURSIVE DecimalDigits(_)
DecimalDigits(n) ==
    LET digit == <<"0", "1", "2", "3", "4", "5", "6", "7", "8", "9">>[(n % 10) + 1]
    IN  IF n < 10 THEN <<digit>> ELSE DecimalDigits(n \div 10) \o <<digit>>

\* filename.replace(/\.[^/.]+$/, ''): the last dot and what follows it are
\* removed when something follows and no slash is in it
RemoveExtension(s) ==
    LET dots == {k \in 1..(Len(s) - 1) :
                    s[k] = "." /\ \A j \in (k + 1)..Len(s) : s[j] \notin {"/", "."}}
    IN  IF dots = {} THEN s
        ELSE SubSeq(s, 1, (CHOOSE k \in dots : TRUE) - 1)

\* .replace(/\s+/g, '_'): every run of whitespace becomes one underscore
RECURSIVE SkipWhitespace(_)
SkipWhitespace(s) ==
    IF s # <<>> /\ IsWhitespace(Head(s)) THEN SkipWhitespace(Tail(s)) ELSE s
RECURSIVE ReplaceWhitespace(_)
ReplaceWhitespace(s) ==
    IF s = <<>> THEN <<>>
    ELSE IF IsWhitespace(Head(s)) THEN <<"_">> \o ReplaceWhitespace(SkipWhitespace(s))
    ELSE <<Head(s)>> \o ReplaceWhitespace(Tail(s))

\* .replace(/[^a-zA-Z0-9_-]/g, '')
RemoveSpecial(s) == SelectSeq(s, IsNameChar)

\* .substring(0, n)
Substring0(s, n) == SubSeq(s, 1, IF Len(s) < n THEN Len(s) ELSE n)

\* sanitizeFileName(filename), Date.now() reading ts
SanitizeFileName(filename, ts) ==
    LET nameWithoutExt == RemoveExtension(filename)
        sanitized == Substring0(RemoveSpecial(ReplaceWhitespace(nameWithoutExt)), NameLimit)
    IN  IF sanitized # <<>> THEN sanitized
        ELSE <<"i", "m", "a", "g", "e", "_">> \o DecimalDigits(ts)

\* generateProcessedFileName(originalName, prefix, index), Date.now()
\* reading ts
GenerateProcessedFileName(originalName, prefix, index, ts) ==
    IF prefix # <<>> /\ prefix[1] # <<>> /\ index # <<>>
    THEN SanitizeFileName(prefix[1], ts) \o <<"_">> \o DecimalDigits(index[1] + 1)
    ELSE IF index # <<>>
    THEN <<"i", "m", "a", "g", "e", "_">> \o DecimalDigits(index[1] + 1)
    ELSE SanitizeFileName(originalName, ts)

\* ------------------------------------------- POST /api/process-image
\* file.size > MAX_FILE_SIZE
FileTooLarge(file) == file.size > MAX_FILE_SIZE

\* (mutant) an image of exactly maxDimension is resized as well
ResizeTargetInclusive(originalSize, maxDimension) ==
    LET maxCurrentDimension == MaxSide(originalSize)
        scaleFactor == Frac(maxDimension, maxCurrentDimension)
    IN  IF maxCurrentDimension >= maxDimension
        THEN [finalSize |-> Dim(RoundMul(originalSize.width, scaleFactor),
                                RoundMul(originalSize.height, scaleFactor)),
              wasResized |-> TRUE]
        ELSE [finalSize |-> originalSize, wasResized |-> FALSE]

\* the resize target computed inline by the handler
ResizeTarget(originalSize, maxDimension) ==
    LET maxCurrentDimension == MaxSide(originalSize)
        scaleFactor == Frac(maxDimension, maxCurrentDimension)
    IN  IF maxCurrentDimension > maxDimension
        THEN [finalSize |-> Dim(RoundMul(originalSize.width, scaleFactor),
                                RoundMul(originalSize.height, scaleFactor)),
              wasResized |-> TRUE]
        ELSE [finalSize |-> originalSize, wasResized |-> FALSE]

\* the reply of a handler: HTTP status, JSON body, and what the handler did
\* on the way (stages run, keys written under public/uploads and
\* public/processed, scale submitted to the provider: <<>> when none was)
Reply(status, body, stages, uploads, processed, scale) ==
    [status |-> status, body |-> body, stages |-> stages,
     uploads |-> uploads, processed |-> processed, providerScale |-> scale]

ErrorBody(msg) == [success |-> FALSE, error |-> msg]
\* a failure that carries the provider's answer: replicateRawOutput: output
ErrorBodyRaw(msg, output) ==
    [success |-> FALSE, error |-> msg, replicateRawOutput |-> output]

\* upscaleWithReplicate(imagePath, fileName, currentSize, targetSize):
\* [threw, result, scale, processed].  env: token (REPLICATE_API_TOKEN set),
\* sdk (what replicate.run does: [threw, output], output a JSON value), download
\* ("ok" / "notok" / "reject" of fetch(imageUrl)), image (what sharp reads
\* from the downloaded bytes).
UrlOfSdkOutput(output) ==
    IF output.t = "str" THEN output
    ELSE IF Truthy(output) /\ TypeofObject(output)
    THEN IF Get(output, "url").t = "str" THEN Get(output, "url")
         ELSE IF Get(output, "stringValue").t = "str" THEN Get(output, "stringValue")
         ELSE IF output.t = "arr" /\ Len(output.v) > 0 /\ output.v[1].t = "str"
              THEN output.v[1]
         ELSE JNull
    ELSE JNull

UpscaleWithReplicate(fileName, currentSize, targetSize, env, ts) ==
    LET maxCurrentDimension == MaxSide(currentSize)
        scaleFactor == Frac(targetSize, maxCurrentDimension)
        sent == FracMinInt(scaleFactor, MaxProviderScale)
        failed(msg, scale) ==
            [threw |-> FALSE, result |-> ErrorBody(msg), scale |-> scale, processed |-> {}]
        imageUrl == UrlOfSdkOutput(env.sdk.output)
        upKey == Key("upscaled_", ts, fileName)
    IN  IF ~env.token
        THEN [threw |-> TRUE, result |-> ErrorBody("REPLICATE_API_TOKEN not configured"),
              scale |-> <<>>, processed |-> {}]
        ELSE IF FracLE(scaleFactor, FracOne)
        THEN failed("Image already at target size or larger", <<>>)
        ELSE IF env.sdk.threw
        THEN failed("replicate.run rejected", sent)
        ELSE IF ~Truthy(imageUrl)
        THEN failed("No output from Replicate", sent)
        ELSE IF env.download = "reject"
        THEN failed("fetch failed", sent)
        ELSE IF env.download = "notok"
        THEN failed("Failed to download upscaled image", sent)
        ELSE IF ~env.image.readable
        THEN failed("sharp could not read the upscaled image", sent)
        ELSE IF env.image.width = 0 \/ env.image.height = 0
        THEN failed("Invalid upscaled image", sent)
        ELSE [threw |-> FALSE,
              result |-> [success |-> TRUE, wasUpscaled |-> TRUE,
                          scaleFactor |-> scaleFactor,
                          finalSize |-> Dim(env.image.width, env.image.height),
                          downloadUrl |-> ServeUrl(upKey)],
              scale |-> sent,
              processed |-> {upKey}]

\* POST(request) of process-image.  file: the 'file' form field ([present,
\* name, type, size, readable, width, height]); settings: the parsed
\* 'settings' field; ts, ts2: the readings of Date.now() in the handler and
\* in upscaleWithReplicate; env: as for UpscaleWithReplicate.
ProcessImagePOST(file, settings, ts, ts2, env) ==
    LET fileName == settings.fileName
        originalSize == Dim(file.width, file.height)
        target == ResizeTarget(originalSize, settings.maxDimension)
        finalSize == target.finalSize
        upKey == Key("", ts, file.name)
        outKey == Key("", ts, fileName)
        processedUrl == ServeUrl(outKey)
        result == [success |-> TRUE, processedName |-> fileName,
                   originalSize |-> originalSize, finalSize |-> finalSize,
                   wasResized |-> target.wasResized, wasUpscaled |-> FALSE,
                   scaleFactor |-> FracOne, downloadUrl |-> processedUrl,
                   preview |-> processedUrl]
        resizing == IF target.wasResized THEN {"resize"} ELSE {}
        done == {"writeUpload", "decode", "encode", "writeProcessed"} \cup resizing
        up == UpscaleWithReplicate(fileName, finalSize, settings.targetSize, env, ts2)
    IN  IF ~file.present
        THEN Reply(400, ErrorBody("No file provided"), {}, {}, {}, <<>>)
        ELSE IF FileTooLarge(file)
        THEN Reply(400, ErrorBody("File too large"), {}, {}, {}, <<>>)
        ELSE IF ~file.readable
        THEN \* sharp(buffer).metadata() rejects: the catch block answers
             Reply(500, ErrorBody("Internal server error"),
                   {"writeUpload", "decode"}, {upKey}, {}, <<>>)
        ELSE IF file.width = 0 \/ file.height = 0
        THEN Reply(400, ErrorBody("Invalid image file"),
                   {"writeUpload", "decode"}, {upKey}, {}, <<>>)
        ELSE IF settings.enableUpscaling /\ MaxSide(finalSize) < settings.targetSize
        THEN IF ~up.threw /\ up.result.success
             THEN Reply(200,
                        [success |-> TRUE, processedName |-> fileName,
                         originalSize |-> originalSize,
                         finalSize |-> up.result.finalSize,
                         wasResized |-> target.wasResized, wasUpscaled |-> TRUE,
                         scaleFactor |-> up.result.scaleFactor,
                         downloadUrl |-> up.result.downloadUrl,
                         preview |-> up.result.downloadUrl],
                        done \cup {"upscale"}, {upKey}, {outKey} \cup up.processed,
                        up.scale)
             ELSE Reply(200, result, done \cup {"upscale"}, {upKey}, {outKey}, up.scale)
        ELSE Reply(200, result, done, {upKey}, {outKey}, <<>>)

\* ------------------------------------------- POST /api/upscale-image
\* the image Real-ESRGAN returns for an image of size currentSize and the
\* scale it was given
ProviderOutputSize(currentSize, scale) ==
    Dim(RoundMul(currentSize.width, scale), RoundMul(currentSize.height, scale))

\* (mutant) the handler also takes a URL given as a plain string, in a url
\* field or as the first element of an array
ResultUrlAnyShape(output) ==
    LET status == Get(output, "status")
        out == Get(output, "output")
    IN  IF output.t = "str" THEN output
        ELSE IF Get(output, "url").t = "str" THEN Get(output, "url")
        ELSE IF output.t = "arr" /\ Len(output.v) > 0 THEN output.v[1]
        ELSE IF Truthy(output) /\ (IsText(status, "succeeded") \/ IsText(status, "processing"))
                /\ Truthy(out)
        THEN IF out.t = "str" THEN out
             ELSE IF out.t = "arr" /\ Len(out.v) > 0 THEN out.v[1]
             ELSE JNull
        ELSE JNull

\* the URL the handler extracts from the provider's JSON answer
\* (JNull: none found)
ResultUrl(output) ==
    LET status == Get(output, "status")
        out == Get(output, "output")
    IN  IF Truthy(output) /\ (IsText(status, "succeeded") \/ IsText(status, "processing"))
           /\ Truthy(out)
        THEN IF out.t = "str" THEN out
             ELSE IF out.t = "arr" /\ Len(out.v) > 0 THEN out.v[1]
             ELSE JNull
        ELSE JNull

\* output && typeof output === 'object' && Object.keys(output).length === 0
IsEmptyObject(output) == Truthy(output) /\ TypeofObject(output) /\ KeyCount(output) = 0

\* POST(request) of upscale-image.  req: [imageUrl, fileName, currentSize,
\* targetSize]; env: token (REPLICATE_API_TOKEN set), image ("ok" / "notok" /
\* "reject": fetch(imageUrl)), provider ([net, ok, body]: net = "reject" when
\* fetch rejects, "badjson" when .json() rejects, "json" otherwise).
\* A JSON answer never holds a function, so the FileOutput branch
\* (typeof output.read === 'function') is never taken.
UpscaleImagePOST(req, env) ==
    LET maxCurrentDimension == MaxSide(req.currentSize)
        scaleFactor == Frac(req.targetSize, maxCurrentDimension)
        sent == FracMinInt(scaleFactor, MaxProviderScale)
        output == env.provider.body
        resultUrl == ResultUrl(output)
        fail(status, msg, stages, scale) ==
            Reply(status, ErrorBody(msg), stages, {}, {}, scale)
        failRaw(msg) ==
            Reply(200, ErrorBodyRaw(msg, output), {"fetchImage", "provider"}, {}, {}, sent)
    IN  IF ~env.token
        THEN fail(200, "REPLICATE_API_TOKEN not configured", {}, <<>>)
        ELSE IF FracLE(scaleFactor, FracOne)
        THEN fail(200, "Image already at target size", {}, <<>>)
        ELSE IF env.image = "reject"
        THEN fail(500, "fetch failed", {"fetchImage"}, <<>>)
        ELSE IF env.image = "notok"
        THEN fail(500, "Failed to fetch image", {"fetchImage"}, <<>>)
        ELSE IF env.provider.net = "reject"
        THEN fail(500, "fetch failed", {"fetchImage", "provider"}, sent)
        ELSE IF env.provider.net = "badjson"
        THEN fail(500, "Unexpected token in JSON", {"fetchImage", "provider"}, sent)
        ELSE IF IsEmptyObject(output)
        THEN failRaw("Replicate returned empty object - this might be a model or API issue")
        ELSE IF ~env.provider.ok
        THEN failRaw("Replicate API error")
        ELSE IF IsText(Get(output, "status"), "failed")
        THEN failRaw("Replicate prediction failed")
        ELSE IF ~Truthy(resultUrl)
        THEN failRaw("No valid URL in Replicate response")
        ELSE Reply(200,
                   [success |-> TRUE, scaleFactor |-> scaleFactor,
                    finalSize |-> Dim(RoundMul(req.currentSize.width, scaleFactor),
                                      RoundMul(req.currentSize.height, scaleFactor)),
                    downloadUrl |-> resultUrl.v],
                   {"fetchImage", "provider"}, {}, {}, sent)

\* --------------------------------------------- POST /api/download-all
\* the decimal digits of b start with those of a
RECURSIVE DecimalPrefix(_, _)
DecimalPrefix(a, b) == a = b \/ (b >= 10 /\ DecimalPrefix(a, b \div 10))

\* file.includes(image.name) for a file `${pre}${ts}_${prefix}_${n}.png` of
\* public/processed and a name `${prefix}_${m}`
Includes(file, name) ==
    file.name.prefix = name.prefix /\ DecimalPrefix(name.n, file.name.n)

\* the files among which files.find(file => file.includes(image.name)) finds
\* one (readdir gives no order)
Matching(dir, name) == {file \in dir : Includes(file, name)}

\* (mutant) the entry is named after the image without the extension
EntryNameNoExtension(image) == [base |-> image.name, ext |-> ""]

\* `${image.name}.png`
EntryName(image) == [base |-> image.name, ext |-> ".png"]

\* archive.append(bytes, { name: fileName }): the bytes fetched from a URL,
\* or those of one of the matching local files
AppendEntry(acc, name, local, remote) ==
    [acc EXCEPT !.entries = Append(@, [name |-> name, local |-> local, remote |-> remote])]

\* (mutant) an item that cannot be read is not skipped: the error is fatal
SkipEntryFatal(acc) == [acc EXCEPT !.failed = TRUE]

\* the item is not resolved (response not OK, no matching file, or the catch
\* block of the loop): it is logged and the loop continues
SkipEntry(acc) == acc

\* the loop `for (const image of images)` from the k-th image on.  fetched[k]
\* is what fetch(image.downloadUrl) does ("ok" / "notok" / "reject"), dir the
\* files of public/processed.
RECURSIVE AddFiles(_, _, _, _, _)
AddFiles(k, images, dir, fetched, acc) ==
    IF k > Len(images) \/ acc.failed THEN acc
    ELSE LET image == images[k]
             local == Matching(dir, image.name)
             next ==
                 IF StartsWithHttp(image.downloadUrl)
                 THEN IF fetched[k] = "ok"
                      THEN AppendEntry(acc, EntryName(image), {}, <<image.downloadUrl>>)
                      ELSE SkipEntry(acc)
                 ELSE IF local # {}
                      THEN AppendEntry(acc, EntryName(image), local, <<>>)
                      ELSE SkipEntry(acc)
         IN  AddFiles(k + 1, images, dir, fetched, next)

\* the reply of the handler: status, the entries of the archive, and whether
\* the cleanup was given to setTimeout
ArchiveReply(status, entries, scheduled) ==
    [status |-> status, entries |-> entries, scheduled |-> scheduled]

\* (mutant) the request is rejected after the cleanup was scheduled
RejectNoImagesAfterScheduling == ArchiveReply(400, <<>>, TRUE)

\* { error: 'No images specified' }, status 400
RejectNoImages == ArchiveReply(400, <<>>, FALSE)

\* POST(request) of download-all.  body: [t, v], t = "badjson" when
\* request.json() rejects, "null" when images is missing, "arr" when it is
\* the array v.
DownloadAllPOST(body, dir, fetched) ==
    IF body.t = "badjson"
    THEN ArchiveReply(500, <<>>, FALSE)
    ELSE IF body.t # "arr" \/ Len(body.v) = 0
    THEN RejectNoImages
    ELSE LET acc == AddFiles(1, body.v, dir, fetched,
                             [failed |-> FALSE, entries |-> <<>>])
         IN  IF acc.failed
             THEN ArchiveReply(500, <<>>, FALSE)
             ELSE ArchiveReply(200, acc.entries, TRUE)

\* ------------------------------------- GET /api/serve-image/[filename]
ServeImageGET(filename, dir) ==
    IF filename \notin dir
    THEN [status |-> 404, file |-> <<>>]
    ELSE [status |-> 200, file |-> <<filename>>]

\* ------------------------------------------------------------- inputs
\* what sharp reads from a file's bytes: an image of some size, bytes with
\* no usable dimensions, or bytes it cannot read at all
File(type, size, readable, w, h) ==
    [present |-> TRUE, name |-> "photo.png", type |-> type, size |-> size,
     readable |-> readable, width |-> w, height |-> h]
\* the files a user can submit (file.name is the same for all of them): PNG
\* files with a small image, a large image, no usable dimensions, unreadable
\* bytes, and a size at and above the limit; and files of a MIME type that
\* validateImageFile does not support (sharp reads SVG, so such a file can
\* still decode)
Files ==
    { File("image/png", 1024, TRUE, 400, 300),
      File("image/png", MAX_FILE_SIZE, TRUE, 2600, 1300),
      File("image/png", 1024, TRUE, 0, 0),
      File("image/png", 1024, FALSE, 0, 0),
      File("image/png", MAX_FILE_SIZE + 1, TRUE, 400, 300),
      File("image/svg+xml", 1024, TRUE, 400, 300),
      File("image/svg+xml", 1024, FALSE, 0, 0) }

\* the settings form: upscaling switch and target size (min 1300, default
\* 2560); maxDimension and namePrefix at their defaults
SettingsChoices ==
    { [enableUpscaling |-> e, targetSize |-> t,
       maxDimension |-> DefaultMaxDimension, namePrefix |-> ""]
      : e \in BOOLEAN, t \in {MinTargetSize, DefaultTargetSize} }

\* answers of the provider to POST /v1/predictions
Prediction(status, out) ==
    JObj([status |-> JStr(Text(status)), output |-> out])
ProviderAnswers ==
    << [net |-> "reject", ok |-> FALSE, body |-> JNull],
       [net |-> "badjson", ok |-> TRUE, body |-> JNull],
       [net |-> "json", ok |-> FALSE, body |-> JObj([detail |-> JStr(Text("Unauthenticated"))])],
       [net |-> "json", ok |-> TRUE, body |-> JObj(<<>>)],
       [net |-> "json", ok |-> TRUE, body |-> JStr(ProviderUrl)],
       [net |-> "json", ok |-> TRUE, body |-> JObj([url |-> JStr(ProviderUrl)])],
       [net |-> "json", ok |-> TRUE, body |-> JArr(<<JStr(ProviderUrl)>>)],
       [net |-> "json", ok |-> TRUE, body |-> Prediction("succeeded", JStr(ProviderUrl))],
       [net |-> "json", ok |-> TRUE, body |-> Prediction("succeeded", JArr(<<JStr(ProviderUrl)>>))],
       [net |-> "json", ok |-> TRUE, body |-> Prediction("succeeded", JObj([url |-> JStr(ProviderUrl)]))],
       [net |-> "json", ok |-> TRUE, body |-> Prediction("processing", JStr(ProviderUrl))],
       [net |-> "json", ok |-> TRUE, body |-> Prediction("processing", JNull)],
       [net |-> "json", ok |-> TRUE, body |-> Prediction("failed", JNull)] >>
\* what the upscale-image handler meets outside itself: the token, the fetch
\* of the image and the provider's answer.  A part the handler cannot reach
\* (the fetches without a token, the provider without the image) is
\* "unreached".
Unreached == [net |-> "unreached", ok |-> FALSE, body |-> JNull]
UpscaleEnvs(token) ==
    IF ~token
    THEN { [token |-> FALSE, image |-> "unreached", provider |-> Unreached] }
    ELSE { [token |-> TRUE, image |-> "ok", provider |-> ProviderAnswers[k]]
           : k \in 1..Len(ProviderAnswers) }
         \cup { [token |-> TRUE, image |-> im, provider |-> Unreached]
                : im \in {"notok", "reject"} }
\* the client always sends enableUpscaling: false, so upscaleWithReplicate
\* is not reached and its surroundings do not matter
NoSdkEnv(token) ==
    [token |-> token, sdk |-> [threw |-> TRUE, output |-> JNull],
     download |-> "reject", image |-> [readable |-> FALSE, width |-> 0, height |-> 0]]

\* what upscaleWithReplicate meets outside itself: replicate.run throwing or
\* returning some output, the download of the result, the image downloaded
SdkCase(threw, output, download, readable, w, h) ==
    [threw |-> threw, output |-> output, download |-> download,
     readable |-> readable, width |-> w, height |-> h]
SdkCases ==
    << SdkCase(TRUE, JNull, "ok", TRUE, 1600, 1200),
       SdkCase(FALSE, JStr(ProviderUrl), "ok", TRUE, 1600, 1200),
       SdkCase(FALSE, JObj([url |-> JStr(ProviderUrl)]), "ok", TRUE, 1600, 1200),
       SdkCase(FALSE, JArr(<<JStr(ProviderUrl)>>), "ok", TRUE, 1600, 1200),
       SdkCase(FALSE, JObj(<<>>), "ok", TRUE, 1600, 1200),
       SdkCase(FALSE, JStr(ProviderUrl), "notok", TRUE, 1600, 1200),
       SdkCase(FALSE, JStr(ProviderUrl), "reject", TRUE, 1600, 1200),
       SdkCase(FALSE, JStr(ProviderUrl), "ok", FALSE, 0, 0),
       SdkCase(FALSE, JStr(ProviderUrl), "ok", TRUE, 0, 0) >>
SdkEnv(token, c) ==
    [token |-> token, sdk |-> [threw |-> c.threw, output |-> c.output],
     download |-> c.download,
     image |-> [readable |-> c.readable, width |-> c.width, height |-> c.height]]

\* requests another client can send to the two endpoints
NoFile ==
    [present |-> FALSE, name |-> "", type |-> "", size |-> 0,
     readable |-> FALSE, width |-> 0, height |-> 0]
DirectFiles == {f \in Files : f.type = "image/png"} \cup {NoFile}
DirectSizes == {Dim(400, 300), Dim(1300, 650), Dim(2600, 1300)}
TargetSizes == {MinTargetSize, DefaultTargetSize}

\* -------------------------------------------------------------- state
VARIABLES
    nFiles,           \* files.length of the component's files prop
    settings,         \* the settings state of the component
    apiToken,         \* whether REPLICATE_API_TOKEN is set on the server
    now,              \* the last reading of Date.now() on the server
    pc,               \* where processImages stands
    i,                \* the loop index of processImages
    isProcessing,     \* the isProcessing state
    progress,         \* the progress state (a fraction; <<0, 1>> is 0)
    results,          \* the local results array of processImages
    processedImages,  \* the processedImages state
    inflight,         \* the requests issued by fetch and not yet settled
    cur,              \* the item being processed: file, replies, final result
    api,              \* the last exchange of another client with an endpoint
    submitted,        \* the items sent to /api/process-image in this run
    failed,           \* the items whose error the catch block logged, this run
    progressUpdates,  \* the values given to setProgress after items, this run
    handed,           \* the lists given to onProcessingComplete, this run
    uploads,          \* the files of public/uploads
    processed,        \* the files of public/processed
    timers,           \* the cleanup callbacks setTimeout holds, oldest first
    owned,            \* the files written for the component's current run
    download,         \* the last download: of the archive or of one outcome
    call,             \* a call of a function of the image utilities
    consoleLog,       \* the global console.log of the server process
    requests          \* the process-image requests the server has entered

vars == <<nFiles, settings, apiToken, now, pc, i, isProcessing, progress, results,
          processedImages, inflight, cur, api, submitted, failed,
          progressUpdates, handed, uploads, processed, timers, owned, download,
          call, consoleLog, requests>>

\* the state outside the batch run and the two directories
LibVars == <<call, consoleLog, requests>>

\* files of the two directories
StoredFiles(up, pr) == [uploads |-> up, processed |-> pr]
NoFiles == StoredFiles({}, {})

NoCur == [file |-> <<>>, processNet |-> "none", process |-> <<>>,
          upNet |-> "none", upReq |-> <<>>, upEnv |-> <<>>, upscale |-> <<>>,
          final |-> <<>>]


NoDownload == [kind |-> "none"]

NoApi == [endpoint |-> "none"]

\* no function of the image utilities has been called
NoCall == [fn |-> "none"]
\* console.log as the runtime provides it, and the function the handler of
\* the r-th request puts in its place
OriginalLog == [wrapper |-> FALSE, of |-> 0]
Wrapper(r) == [wrapper |-> TRUE, of |-> r]

Init ==
    /\ nFiles \in 0..MaxFiles
    /\ settings \in SettingsChoices
    /\ apiToken \in BOOLEAN
    /\ now = 0
    /\ pc = "idle"
    /\ i = 0
    /\ isProcessing = FALSE
    /\ progress = Frac(0, 1)
    /\ results = <<>>
    /\ processedImages = <<>>
    /\ inflight = <<>>
    /\ cur = NoCur
    /\ api = NoApi
    /\ submitted = <<>>
    /\ failed = {}
    /\ progressUpdates = <<>>
    /\ handed = <<>>
    /\ uploads = {}
    /\ processed = {}
    /\ timers = <<>>
    /\ owned = NoFiles
    /\ download = NoDownload
    /\ call = NoCall
    /\ consoleLog = OriginalLog
    /\ requests = <<>>

StoreVars == <<uploads, processed, timers, owned, download>>

\* the files that writeFile / toFile replace when the handler's writes land
\* on names that exist
Clobbered(reply) ==
    StoredFiles(reply.uploads \cap uploads, reply.processed \cap processed)

\* ------------------------------------------- processImages (component)
\* (mutant) the button is not disabled while a run is in progress
ButtonIgnoresProcessing == nFiles # 0

\* disabled={isProcessing || files.length === 0}
ButtonEnabled == ~isProcessing /\ nFiles # 0

\* settings.namePrefix ? `${settings.namePrefix}_${i + 1}` : `image_${i + 1}`
FileName(idx) ==
    IF settings.namePrefix # ""
    THEN [prefix |-> settings.namePrefix, n |-> idx + 1]
    ELSE [prefix |-> "image", n |-> idx + 1]

\* the 'settings' form field: {...settings, fileName, enableUpscaling: false}
ClientSettings(idx) ==
    [fileName |-> FileName(idx), maxDimension |-> settings.maxDimension,
     enableUpscaling |-> FALSE, targetSize |-> settings.targetSize]

\* (mutant) the percentage computed from i instead of i + 1
ProgressValueOffByOne(idx, n) == Frac(idx * 100, n)

\* ((i + 1) / files.length) * 100
ProgressValue(idx, n) == Frac((idx + 1) * 100, n)

\* (mutant) the new outcome is put in front of the list
PushResultFront(res, img) == <<img>> \o res

\* (mutant) the list is replaced by the new outcome
PushResultReplace(res, img) == <<img>>

\* results.push(processedImage)
PushResult(res, img) == Append(res, img)

\* the ProcessedImage built from finalResult
ProcessedImage(idx, file, finalResult) ==
    [id |-> idx, originalName |-> file.name,
     processedName |-> finalResult.processedName,
     originalSize |-> finalResult.originalSize,
     finalSize |-> finalResult.finalSize,
     wasResized |-> finalResult.wasResized,
     wasUpscaled |-> finalResult.wasUpscaled,
     scaleFactor |-> finalResult.scaleFactor,
     downloadUrl |-> finalResult.downloadUrl,
     preview |-> finalResult.preview]

\* (mutant) the size of the processed image is not compared with targetSize
WantsUpscaleAnySize(result) == settings.enableUpscaling

\* settings.enableUpscaling && Math.max(w, h) < settings.targetSize
WantsUpscale(result) ==
    settings.enableUpscaling /\ MaxSide(result.finalSize) < settings.targetSize

\* result.downloadUrl.startsWith('http') ? url : origin + url
AbsoluteUrl(u) ==
    IF StartsWithHttp(u) THEN u
    ELSE [scheme |-> "http", origin |-> "window.location.origin", path |-> u]

UpscaleRequest(idx, result) ==
    [imageUrl |-> AbsoluteUrl(result.downloadUrl), fileName |-> FileName(idx),
     currentSize |-> result.finalSize, targetSize |-> settings.targetSize]

\* (mutant) the upscaled outcome keeps the scale factor of the basic result
FinalResultKeepsFactor(result, upscaleResult) ==
    IF upscaleResult.success
    THEN [result EXCEPT !.wasUpscaled = TRUE,
                        !.finalSize = upscaleResult.finalSize,
                        !.downloadUrl = upscaleResult.downloadUrl,
                        !.preview = upscaleResult.downloadUrl]
    ELSE result

\* (mutant) the item is marked as upscaled whatever the answer says
FinalResultAlwaysUpscaled(result, upscaleResult) ==
    [result EXCEPT !.wasUpscaled = TRUE]

\* finalResult after the answer of /api/upscale-image
FinalResult(result, upscaleResult) ==
    IF upscaleResult.success
    THEN [result EXCEPT !.wasUpscaled = TRUE,
                        !.scaleFactor = upscaleResult.scaleFactor,
                        !.finalSize = upscaleResult.finalSize,
                        !.downloadUrl = upscaleResult.downloadUrl,
                        !.preview = upscaleResult.downloadUrl]
    ELSE result

\* the end of one loop iteration: setProgress(...), i++
ItemEnd ==
    /\ progress' = ProgressValue(i, nFiles)
    /\ progressUpdates' = Append(progressUpdates, ProgressValue(i, nFiles))
    /\ i' = i + 1
    /\ pc' = "loop"

\* (mutant) the outer catch block leaves the loop
CatchItemErrorBreak ==
    /\ failed' = failed \cup {i}
    /\ results' = results
    /\ progress' = ProgressValue(i, nFiles)
    /\ progressUpdates' = Append(progressUpdates, ProgressValue(i, nFiles))
    /\ i' = nFiles
    /\ pc' = "loop"

\* (mutant) the outer catch block throws the error again
CatchItemErrorRethrow ==
    /\ failed' = failed \cup {i}
    /\ results' = results
    /\ UNCHANGED <<progress, progressUpdates, i>>
    /\ pc' = "thrown"

\* the outer catch block: log the error, go on with the loop
CatchItemError ==
    /\ failed' = failed \cup {i}
    /\ results' = results
    /\ ItemEnd

\* the item's ProcessedImage is pushed, then the iteration ends
PushItem(finalResult) ==
    /\ results' = PushResult(results, ProcessedImage(i, cur.file[1], finalResult))
    /\ failed' = failed
    /\ ItemEnd

\* (mutant) no inner catch block: the error reaches the outer one
CatchUpscaleErrorOuter == CatchItemError

\* the inner catch block: log the error, keep the basic result
CatchUpscaleError == PushItem(cur.process[1].body)

\* onClick of the process button
ClientStart ==
    /\ ButtonEnabled
    /\ pc' = "loop"
    /\ i' = 0
    /\ isProcessing' = TRUE
    /\ progress' = Frac(0, 1)
    /\ processedImages' = <<>>
    /\ results' = <<>>
    /\ cur' = NoCur
    /\ api' = NoApi
    /\ submitted' = <<>>
    /\ failed' = {}
    /\ progressUpdates' = <<>>
    /\ handed' = <<>>
    /\ UNCHANGED <<nFiles, settings, apiToken, LibVars, now, inflight>>

Start == ClientStart /\ UNCHANGED StoreVars

\* loop head, i < files.length: fetch('/api/process-image') is issued
IssueProcessOf(fs) ==
    /\ pc = "loop"
    /\ i < nFiles
    /\ \E f \in fs : cur' = [NoCur EXCEPT !.file = <<f>>, !.processNet = "pending"]
    /\ inflight' = Append(inflight, [api |-> "process-image", item |-> i])
    /\ submitted' = Append(submitted, i)
    /\ pc' = "awaitProcess"
    /\ UNCHANGED <<nFiles, settings, apiToken, LibVars, now, i, isProcessing, progress, results,
                   processedImages, api, failed, progressUpdates, handed>>

IssueProcess == IssueProcessOf(Files) /\ UNCHANGED StoreVars

\* fetch rejects (network error) or response.json() rejects
ProcessRejected ==
    /\ pc = "awaitProcess"
    /\ \E why \in {"reject", "badjson"} : cur' = [cur EXCEPT !.processNet = why]
    /\ inflight' = Tail(inflight)
    /\ CatchItemError
    /\ UNCHANGED <<nFiles, settings, apiToken, LibVars, now, isProcessing, processedImages,
                   api, submitted, handed, StoreVars>>

\* the handler answers; the component goes on to its next await
ClientProcessResponds ==
    /\ pc = "awaitProcess"
    /\ \E ts \in now..MaxClock :
         LET reply == ProcessImagePOST(cur.file[1], ClientSettings(i), ts, ts,
                                       NoSdkEnv(apiToken))
             got == [cur EXCEPT !.processNet = "reply", !.process = <<reply>>]
         IN  /\ now' = ts
             /\ IF reply.status # 200
                THEN \* throw new Error(`HTTP error! status: ...`)
                     /\ cur' = got
                     /\ inflight' = Tail(inflight)
                     /\ CatchItemError
                ELSE IF WantsUpscale(reply.body)
                THEN \* fetch('/api/upscale-image') is issued
                     /\ cur' = [got EXCEPT !.upNet = "pending",
                                           !.upReq = <<UpscaleRequest(i, reply.body)>>]
                     /\ inflight' = Append(Tail(inflight),
                                           [api |-> "upscale-image", item |-> i])
                     /\ pc' = "awaitUpscale"
                     /\ UNCHANGED <<i, progress, results, failed, progressUpdates>>
                ELSE /\ cur' = [got EXCEPT !.final = <<reply.body>>]
                     /\ inflight' = Tail(inflight)
                     /\ PushItem(reply.body)
    /\ UNCHANGED <<nFiles, settings, apiToken, LibVars, isProcessing, processedImages,
                   api, submitted, handed>>

ProcessResponds == ClientProcessResponds /\ UNCHANGED StoreVars

\* fetch('/api/upscale-image') rejects, or replicateResponse.json() rejects
UpscaleRejected ==
    /\ pc = "awaitUpscale"
    /\ \E why \in {"reject", "badjson"} :
         cur' = [cur EXCEPT !.upNet = why, !.final = <<cur.process[1].body>>]
    /\ inflight' = Tail(inflight)
    /\ CatchUpscaleError
    /\ UNCHANGED <<nFiles, settings, apiToken, LibVars, now, isProcessing, processedImages,
                   api, submitted, handed, StoreVars>>

\* the upscale handler answers; the item's result is final
UpscaleRespondsIn(envs) ==
    /\ pc = "awaitUpscale"
    /\ \E env \in envs :
         LET reply == UpscaleImagePOST(cur.upReq[1], env)
             finalResult == FinalResult(cur.process[1].body, reply.body)
         IN  /\ cur' = [cur EXCEPT !.upNet = "reply", !.upEnv = <<env>>,
                                   !.upscale = <<reply>>, !.final = <<finalResult>>]
             /\ PushItem(finalResult)
    /\ inflight' = Tail(inflight)
    /\ UNCHANGED <<nFiles, settings, apiToken, LibVars, now, isProcessing, processedImages,
                   api, submitted, handed>>

UpscaleResponds == UpscaleRespondsIn(UpscaleEnvs(apiToken)) /\ UNCHANGED StoreVars

\* after the loop: setProcessedImages, setIsProcessing(false),
\* onProcessingComplete(results)
Finish ==
    /\ pc = "loop"
    /\ i >= nFiles
    /\ processedImages' = results
    /\ isProcessing' = FALSE
    /\ handed' = Append(handed, results)
    /\ pc' = "done"
    /\ UNCHANGED <<nFiles, settings, apiToken, LibVars, now, i, progress, results, inflight, cur,
                   api, submitted, failed, progressUpdates, StoreVars>>

\* Requests of other clients.  The handlers keep no state between requests,
\* so one such exchange is placed before the component's run; `api` shows it
\* and is forgotten when a run starts.
ClientVars == <<nFiles, settings, pc, i, isProcessing, progress, results,
                processedImages, inflight, cur, submitted, failed,
                progressUpdates, handed>>

\* POST /api/upscale-image with any well-formed body
UpscaleImageRequest ==
    /\ pc = "idle"
    /\ api = NoApi
    /\ \E cs \in DirectSizes, t \in TargetSizes, env \in UpscaleEnvs(apiToken) :
         LET req == [imageUrl |-> ProviderUrl, fileName |-> FileName(0),
                     currentSize |-> cs, targetSize |-> t]
         IN  api' = [endpoint |-> "upscale-image", req |-> req, env |-> env,
                     reply |-> UpscaleImagePOST(req, env)]
    /\ UNCHANGED <<ClientVars, apiToken, LibVars, now, StoreVars>>

\* POST /api/process-image with any file and settings
ProcessImageRequestOf(fs, cases) ==
    /\ pc = "idle"
    /\ api = NoApi
    /\ \E f \in fs, e \in BOOLEAN, t \in TargetSizes,
          k \in cases, ts \in now..MaxClock :
         \E ts2 \in ts..MaxClock :
            LET req == [file |-> f,
                        settings |-> [fileName |-> FileName(0),
                                      maxDimension |-> DefaultMaxDimension,
                                      enableUpscaling |-> e, targetSize |-> t]]
                env == SdkEnv(apiToken, SdkCases[k])
                reply == ProcessImagePOST(f, req.settings, ts, ts2, env)
            IN  /\ e \/ (k = 1 /\ t = DefaultTargetSize /\ ts2 = ts)
                /\ api' = [endpoint |-> "process-image", req |-> req, env |-> env,
                            reply |-> reply]
                /\ now' = ts2
    /\ UNCHANGED <<ClientVars, apiToken, LibVars>>

ProcessImageRequest ==
    ProcessImageRequestOf(DirectFiles, 1..Len(SdkCases)) /\ UNCHANGED StoreVars

Next ==
    \/ UpscaleImageRequest
    \/ ProcessImageRequest
    \/ Start
    \/ IssueProcess
    \/ ProcessRejected
    \/ ProcessResponds
    \/ UpscaleRejected
    \/ UpscaleResponds
    \/ Finish

Spec == Init /\ [][Next]_vars

\* Every network call settles and the event loop runs every continuation;
\* the user is not obliged to press the button.
LiveSpec ==
    /\ Spec
    /\ WF_vars(IssueProcess)
    /\ WF_vars(ProcessRejected \/ ProcessResponds)
    /\ WF_vars(UpscaleRejected \/ UpscaleResponds)
    /\ WF_vars(Finish)

\* ------------------------------------------- the two directories kept
\* Spec takes each handler as a function of its request: what it writes is
\* part of its reply.  StoreSpec keeps public/uploads and public/processed
\* between the requests, adds the archive, its cleanup timer and the
\* download of a single outcome, and draws the runs from fewer inputs: a
\* readable and an unreadable PNG; the provider answering with a prediction
\* that succeeded, with {}, or not reached because the image is not served.
StoredFilesIn ==
    { File("image/png", 1024, TRUE, 400, 300),
      File("image/png", 1024, FALSE, 0, 0) }
StoredEnvs(token) ==
    IF ~token
    THEN UpscaleEnvs(FALSE)
    ELSE { [token |-> TRUE, image |-> "ok", provider |-> ProviderAnswers[k]] : k \in {4, 8} }
         \cup { [token |-> TRUE, image |-> "notok", provider |-> Unreached] }

\* a run starts: nothing was written for it yet
StoredStart ==
    /\ ClientStart
    /\ owned' = NoFiles
    /\ download' = NoDownload
    /\ UNCHANGED <<uploads, processed, timers>>

StoredIssueProcess == IssueProcessOf(StoredFilesIn) /\ UNCHANGED StoreVars

\* writeFile(originalFilePath), processedImage.toFile(processedFilePath)
StoredProcessResponds ==
    /\ ClientProcessResponds
    /\ LET reply == cur'.process[1]
       IN  /\ uploads' = uploads \cup reply.uploads
           /\ processed' = processed \cup reply.processed
           /\ owned' = StoredFiles(owned.uploads \cup reply.uploads,
                                   owned.processed \cup reply.processed)
    /\ UNCHANGED <<timers, download>>

\* fetch(imageUrl) of the upscale handler is answered by serve-image: it is
\* OK only while the processed file is there
StoredUpscaleResponds ==
    /\ UpscaleRespondsIn(
          { env \in StoredEnvs(apiToken) :
              env.image = "ok" =>
                  ServeImageGET(cur.upReq[1].imageUrl.path.key, processed).status = 200 })
    /\ UNCHANGED StoreVars

\* another client has one image processed
StoredProcessImageRequest ==
    /\ ProcessImageRequestOf({File("image/png", 1024, TRUE, 400, 300)}, {1})
    /\ LET reply == api'.reply
       IN  /\ uploads' = uploads \cup reply.uploads
           /\ processed' = processed \cup reply.processed
    /\ UNCHANGED <<timers, owned, download>>

\* POST /api/download-all by another client: no images, an empty list, a
\* body that is not JSON, or one image that is not there
DirectArchiveBodies ==
    { [t |-> "badjson", v |-> <<>>], [t |-> "null", v |-> <<>>], [t |-> "arr", v |-> <<>>],
      [t |-> "arr", v |-> <<[id |-> 0, name |-> FileName(0),
                             downloadUrl |-> ServeUrl(Key("", 0, FileName(0)))]>>] }
DownloadAllRequest ==
    /\ pc = "idle"
    /\ api = NoApi
    /\ Len(timers) < MaxTimers
    /\ \E body \in DirectArchiveBodies :
         LET reply == DownloadAllPOST(body, processed, <<"local">>)
         IN  /\ api' = [endpoint |-> "download-all", req |-> body, reply |-> reply]
             /\ timers' = IF reply.scheduled
                           THEN Append(timers, [owned |-> NoFiles])
                           ELSE timers
    /\ UNCHANGED <<ClientVars, apiToken, LibVars, now, uploads, processed, owned, download>>

\* what fetch(image.downloadUrl) can do for each image of the request:
\* a local image is not fetched
FetchOutcomes(images) ==
    { f \in [1..Len(images) -> {"ok", "notok", "reject", "local"}] :
        \A k \in 1..Len(images) :
            f[k] = "local" <=> ~StartsWithHttp(images[k].downloadUrl) }

\* downloadAll: the images of processedImages are sent to /api/download-all
ArchiveImages ==
    [k \in 1..Len(processedImages) |->
        [id |-> processedImages[k].id, name |-> processedImages[k].processedName,
         downloadUrl |-> processedImages[k].downloadUrl]]

\* onClick of "download all": the handler builds the archive, schedules the
\* cleanup and answers
DownloadAll ==
    /\ Len(processedImages) # 0
    /\ Len(timers) < MaxTimers
    /\ \E fetched \in FetchOutcomes(ArchiveImages) :
         LET reply == DownloadAllPOST([t |-> "arr", v |-> ArchiveImages], processed, fetched)
         IN  /\ download' = [kind |-> "archive", status |-> reply.status,
                              images |-> ArchiveImages, fetched |-> fetched,
                              dir |-> processed, entries |-> reply.entries,
                              scheduled |-> reply.scheduled]
             /\ timers' = IF reply.scheduled
                           THEN Append(timers, [owned |-> owned])
                           ELSE timers
    /\ UNCHANGED <<ClientVars, apiToken, LibVars, now, api, uploads, processed, owned>>

\* the callback of setTimeout(..., 5000): every file of public/uploads and
\* of public/processed is unlinked
CleanupFires ==
    /\ timers # <<>>
    /\ uploads' = {}
    /\ processed' = {}
    /\ timers' = Tail(timers)
    /\ UNCHANGED <<ClientVars, apiToken, LibVars, now, api, owned, download>>

\* onClick of an outcome's download button: the browser follows downloadUrl,
\* to serve-image for a local file, to the provider for an upscaled one
DownloadOne ==
    /\ \E k \in 1..Len(processedImages) :
         LET u == processedImages[k].downloadUrl
         IN  IF StartsWithHttp(u)
             THEN \E st \in {200, 404} :
                     download' = [kind |-> "one", item |-> k, local |-> FALSE,
                                  status |-> st, file |-> <<>>]
             ELSE LET reply == ServeImageGET(u.key, processed)
                  IN  download' = [kind |-> "one", item |-> k, local |-> TRUE,
                                   status |-> reply.status, file |-> reply.file]
    /\ UNCHANGED <<ClientVars, apiToken, LibVars, now, api, uploads, processed, timers, owned>>

StoreNext ==
    \/ StoredProcessImageRequest
    \/ DownloadAllRequest
    \/ StoredStart
    \/ StoredIssueProcess
    \/ ProcessRejected
    \/ StoredProcessResponds
    \/ UpscaleRejected
    \/ StoredUpscaleResponds
    \/ Finish
    \/ DownloadAll
    \/ CleanupFires
    \/ DownloadOne

StoreInit ==
    /\ Init
    /\ nFiles <= MaxStoredFiles
    /\ settings.targetSize = DefaultTargetSize

StoreSpec == StoreInit /\ [][StoreNext]_vars

\* ------------------------------------------------ the image utilities
\* UtilSpec applies the functions of the image utilities to inputs drawn
\* in the initial state: sizes and a maxDimension up to MaxPixels, files of
\* supported and unsupported types around the size limit, names and
\* prefixes up to MaxNameLen characters.
AppVars == <<ClientVars, apiToken, api, StoreVars, consoleLog, requests>>

ResizeInputs ==
    { [kind |-> "resize", d |-> Dim(w, h), m |-> m]
      : w \in 1..MaxPixels, h \in 1..MaxPixels, m \in 1..MaxPixels }
FileInputs ==
    { [kind |-> "file", file |-> File(t, sz, TRUE, 400, 300)]
      : t \in SupportedTypes \cup {"image/svg+xml", "application/pdf", ""},
        sz \in {0, 1024, MAX_FILE_SIZE, MAX_FILE_SIZE + 1} }
NameChars == {"a", "_", " ", "#", ".", "/"}
Names == UNION { [1..n -> NameChars] : n \in 0..MaxNameLen }
Prefixes == {<<>>, << <<>> >>, << <<"a">> >>, << <<"#">> >>, << <<" ", "a">> >>}
NameInputs ==
    { [kind |-> "name", originalName |-> nm, prefix |-> pf, index |-> ix]
      : nm \in Names, pf \in Prefixes, ix \in {<<>>, <<0>>, <<1>>} }

UtilCall(input) == [fn |-> "none", input |-> input]

\* the component idle, the directories empty, no request made
IdleInit ==
    /\ nFiles = 0
    /\ settings = [enableUpscaling |-> TRUE, targetSize |-> DefaultTargetSize,
                   maxDimension |-> DefaultMaxDimension, namePrefix |-> ""]
    /\ now = 0
    /\ pc = "idle"
    /\ i = 0
    /\ isProcessing = FALSE
    /\ progress = Frac(0, 1)
    /\ results = <<>>
    /\ processedImages = <<>>
    /\ inflight = <<>>
    /\ cur = NoCur
    /\ api = NoApi
    /\ submitted = <<>>
    /\ failed = {}
    /\ progressUpdates = <<>>
    /\ handed = <<>>
    /\ uploads = {}
    /\ processed = {}
    /\ timers = <<>>
    /\ owned = NoFiles
    /\ download = NoDownload

UtilInit ==
    /\ IdleInit
    /\ apiToken = FALSE
    /\ consoleLog = OriginalLog
    /\ requests = <<>>
    /\ call \in {UtilCall(x) : x \in ResizeInputs \cup FileInputs \cup NameInputs}

CallCalculateResizeDimensions ==
    /\ call.fn = "none"
    /\ call.input.kind = "resize"
    /\ call' = [fn |-> "calculateResizeDimensions", input |-> call.input,
                result |-> CalculateResizeDimensions(call.input.d, call.input.m)]
    /\ UNCHANGED <<AppVars, now>>

CallValidateImageFile ==
    /\ call.fn = "none"
    /\ call.input.kind = "file"
    /\ call' = [fn |-> "validateImageFile", input |-> call.input,
                result |-> ValidateImageFile(call.input.file)]
    /\ UNCHANGED <<AppVars, now>>

\* the function can be called again later with the same arguments
CallGenerateProcessedFileName ==
    /\ call.input.kind = "name"
    /\ \E ts \in now..MaxClock :
          /\ now' = ts
          /\ call' = [fn |-> "generateProcessedFileName", input |-> call.input,
                      at |-> ts,
                      result |-> GenerateProcessedFileName(call.input.originalName,
                                     call.input.prefix, call.input.index, ts)]
    /\ UNCHANGED AppVars

UtilNext ==
    \/ CallCalculateResizeDimensions
    \/ CallValidateImageFile
    \/ CallGenerateProcessedFileName

UtilSpec == UtilInit /\ [][UtilNext]_vars

\* ------------------------- process-image requests handled in parallel
\* LogSpec follows the handler of process-image from one await to the next,
\* for requests that the server has entered and not yet answered: what each
\* does to the global console.log, to its consoleLogs and to the two
\* directories.  Status and body of the answer are those of
\* ProcessImagePOST.
LogFiles ==
    { NoFile,
      File("image/png", 1024, TRUE, 400, 300),
      File("image/png", MAX_FILE_SIZE + 1, TRUE, 400, 300),
      File("image/png", 1024, TRUE, 0, 0),
      File("image/png", 1024, FALSE, 0, 0) }
LogSettings(e) ==
    [fileName |-> FileName(0), maxDimension |-> DefaultMaxDimension,
     enableUpscaling |-> e, targetSize |-> DefaultTargetSize]
\* replicate.run rejects, or resolves with a URL that is then downloaded
LogSdkCases == {1, 2}
LogVars == <<ClientVars, apiToken, api, timers, owned, download, call>>

\* a message given to console.log while the r-th request is handled
Message(r, text) == [by |-> r, text |-> text]

\* fn(msg): a wrapper pushes the message to the consoleLogs of its request
\* and calls the function it found in console.log when it was installed
RECURSIVE Deliver(_, _, _)
Deliver(fn, msg, reqs) ==
    IF ~fn.wrapper THEN reqs
    ELSE Deliver(reqs[fn.of].originalLog, msg,
                 [reqs EXCEPT ![fn.of].consoleLogs = Append(@, msg)])

\* console.log(text) for each of texts, by the handler of request r
RECURSIVE LogAll(_, _, _, _)
LogAll(fn, r, texts, reqs) ==
    IF texts = <<>> THEN reqs
    ELSE LogAll(fn, r, Tail(texts), Deliver(fn, Message(r, Head(texts)), reqs))

\* return NextResponse.json(...): withLogs tells whether the body carries
\* consoleLogs
Answer(reqs, r, reply, withLogs) ==
    [reqs EXCEPT ![r].pc = "returned",
                 ![r].reply = <<[status |-> reply.status, body |-> reply.body,
                                 withLogs |-> withLogs,
                                 consoleLogs |-> IF withLogs THEN reqs[r].consoleLogs
                                                 ELSE <<>>]>>]

\* lines 22-30: consoleLogs = [], originalLog = console.log, console.log is
\* replaced, await ensureDirectories()
Enter ==
    /\ Len(requests) < MaxRequests
    /\ \E f \in LogFiles, e \in BOOLEAN :
          /\ e => (f.present /\ f.readable /\ f.width > 0 /\ ~FileTooLarge(f))
          /\ requests' = Append(requests,
                 [file |-> f, settings |-> LogSettings(e), pc |-> "entered",
                  originalLog |-> consoleLog, consoleLogs |-> <<>>,
                  timestamp |-> 0, sdk |-> 1, reply |-> <<>>])
    /\ consoleLog' = Wrapper(Len(requests) + 1)
    /\ UNCHANGED <<LogVars, now, uploads, processed>>

\* lines 32-51: the form is read; without a file or with one that is too
\* large the handler returns, console.log left as it is
ReadForm ==
    /\ \E r \in 1..Len(requests) :
          LET q == requests[r]
              reply == ProcessImagePOST(q.file, q.settings, now, now, NoSdkEnv(apiToken))
          IN  /\ q.pc = "entered"
              /\ requests' = IF ~q.file.present \/ FileTooLarge(q.file)
                              THEN Answer(requests, r, reply, FALSE)
                              ELSE [requests EXCEPT ![r].pc = "saving"]
    /\ UNCHANGED <<LogVars, now, uploads, processed, consoleLog>>

\* lines 54-67: the upload is written and sharp reads the metadata; when it
\* rejects, the catch block restores console.log and answers 500; without
\* dimensions the handler returns 400, console.log left as it is
Decode ==
    /\ \E r \in 1..Len(requests), ts \in now..MaxClock :
          LET q == requests[r]
              reply == ProcessImagePOST(q.file, q.settings, ts, ts, NoSdkEnv(apiToken))
          IN  /\ q.pc = "saving"
              /\ now' = ts
              /\ uploads' = uploads \cup reply.uploads
              /\ IF ~q.file.readable
                 THEN /\ consoleLog' = q.originalLog
                      /\ requests' = Answer(requests, r, reply, TRUE)
                 ELSE IF q.file.width = 0 \/ q.file.height = 0
                 THEN /\ consoleLog' = consoleLog
                      /\ requests' = Answer(requests, r, reply, FALSE)
                 ELSE /\ consoleLog' = consoleLog
                      /\ requests' = [requests EXCEPT ![r].pc = "encoding",
                                                      ![r].timestamp = ts]
    /\ UNCHANGED <<LogVars, processed>>

\* lines 69-141: the processed file is written and "Upscaling check" is
\* logged.  Without upscaling, or when upscaleWithReplicate throws for the
\* missing token, console.log is restored and the handler answers;
\* otherwise upscaleWithReplicate logs "Upscale check" and awaits the
\* provider.
Encode ==
    /\ \E r \in 1..Len(requests) :
          LET q == requests[r]
              reply == ProcessImagePOST(q.file, q.settings, q.timestamp, q.timestamp,
                                        NoSdkEnv(apiToken))
              logged == LogAll(consoleLog, r, <<"Upscaling check">>, requests)
              upscales == q.settings.enableUpscaling
                          /\ MaxSide(reply.body.finalSize) < q.settings.targetSize
          IN  /\ q.pc = "encoding"
              /\ processed' = processed \cup reply.processed
              /\ IF upscales /\ apiToken
                 THEN /\ requests' =
                            [LogAll(consoleLog, r, <<"Upscale check">>, logged)
                                EXCEPT ![r].pc = "upscaling"]
                      /\ consoleLog' = consoleLog
                 ELSE /\ requests' = Answer(logged, r, reply, TRUE)
                      /\ consoleLog' = q.originalLog
    /\ UNCHANGED <<LogVars, now, uploads>>

\* upscaleWithReplicate after replicate.run: when it rejected, the failure
\* is returned, console.log is restored and the handler answers with the
\* basic result; otherwise the output and the URL found are logged and the
\* image is fetched
Upscale ==
    /\ \E r \in 1..Len(requests), k \in LogSdkCases :
          LET q == requests[r]
              reply == ProcessImagePOST(q.file, q.settings, q.timestamp, q.timestamp,
                                        SdkEnv(apiToken, SdkCases[k]))
          IN  /\ q.pc = "upscaling"
              /\ IF SdkCases[k].threw
                 THEN /\ requests' = Answer(requests, r, reply, TRUE)
                      /\ consoleLog' = q.originalLog
                 ELSE /\ requests' =
                            [LogAll(consoleLog, r, <<"REPLICATE OUTPUT", "Found URL">>,
                                    requests)
                                EXCEPT ![r].pc = "downloading", ![r].sdk = k]
                      /\ consoleLog' = consoleLog
    /\ UNCHANGED <<LogVars, now, uploads, processed>>

\* the upscaled image is written, upscaleWithReplicate returns,
\* console.log is restored and the handler answers
Return ==
    /\ \E r \in 1..Len(requests), ts2 \in now..MaxClock :
          LET q == requests[r]
              reply == ProcessImagePOST(q.file, q.settings, q.timestamp, ts2,
                                        SdkEnv(apiToken, SdkCases[q.sdk]))
          IN  /\ q.pc = "downloading"
              /\ now' = ts2
              /\ processed' = processed \cup reply.processed
              /\ requests' = Answer(requests, r, reply, TRUE)
              /\ consoleLog' = q.originalLog
    /\ UNCHANGED <<LogVars, uploads>>

LogNext ==
    \/ Enter
    \/ ReadForm
    \/ Decode
    \/ Encode
    \/ Upscale
    \/ Return

LogInit ==
    /\ IdleInit
    /\ apiToken \in BOOLEAN
    /\ call = NoCall
    /\ consoleLog = OriginalLog
    /\ requests = <<>>

LogSpec == LogInit /\ [][LogNext]_vars

\* ================================================================ claims
\* the items of the run that have an outcome in a result list
OutcomeIds(res) == {res[k].id : k \in 1..Len(res)}
\* the item that was just finished is the last entry of results
LastOutcomeOf(idx) == Len(results) > 0 /\ results[Len(results)].id = idx
\* the run has ended and its result list was handed to the caller
Completed == pc = "done"

\* C1 (as stated): when a run over N files has ended, the list handed to the
\* caller holds exactly N outcomes, one per submitted item, failed or not.
C1_OneOutcomePerSubmittedItem ==
    Completed => Len(handed) = 1 /\ Len(handed[1]) = nFiles

\* C1 (amended): the list handed to the caller holds exactly one outcome for
\* every submitted item whose process-image request succeeded and none for an
\* item that failed (a failure is only logged): N minus the number of failed
\* items, never more than N.
C1_OneOutcomePerSuccessfulItem ==
    /\ pc \in {"loop", "done"} =>
          /\ Len(results) = i - Cardinality(failed)
          /\ OutcomeIds(results) = (0..(i - 1)) \ failed
    /\ Completed =>
          /\ handed = <<results>>
          /\ i = nFiles
          /\ Len(handed[1]) = nFiles - Cardinality(failed)
          /\ Len(handed[1]) <= nFiles

\* C1 witness: a run has ended with one item failed and another successful
C1_Witness == Completed /\ failed # {} /\ Len(handed[1]) >= 1

\* C2: in the result list, outcomes appear in submission order: of two
\* outcomes, the one of the item submitted first comes first.
C2_SubmissionOrder ==
    /\ \A a, b \in 1..Len(results) : a < b => results[a].id < results[b].id
    /\ \A h \in 1..Len(handed) :
          \A a, b \in 1..Len(handed[h]) : a < b => handed[h][a].id < handed[h][b].id

\* C2 witness: of three items the second failed; the first went through the
\* upscale call, the third did not, and their outcomes were handed over in
\* that order
C2_Witness ==
    /\ Completed
    /\ failed = {1}
    /\ Len(handed[1]) = 2
    /\ handed[1][1].id = 0 /\ handed[1][1].wasUpscaled
    /\ handed[1][2].id = 2 /\ ~handed[1][2].wasUpscaled

\* C3: a failure of item k never aborts the run: every item after k is still
\* submitted to process-image and ends either failed or with an outcome.
C3_FailureDoesNotAbort ==
    /\ pc # "thrown"
    /\ \A k \in 1..Len(submitted) : submitted[k] = k - 1
    /\ pc = "loop" => Len(submitted) = i
    /\ Completed =>
          \A f \in failed : \A j \in (f + 1)..(nFiles - 1) :
              /\ \E k \in 1..Len(submitted) : submitted[k] = j
              /\ j \in failed \/ j \in OutcomeIds(results)

\* C3 witness: the first item failed, the second was still processed and has
\* an outcome, the third was still submitted and failed too
C3_Witness ==
    /\ Completed
    /\ failed = {0, 2}
    /\ OutcomeIds(results) = {1}
    /\ submitted = <<0, 1, 2>>

\* C4: every run goes Idle -> Running -> Completed: once started it reaches
\* Completed (isProcessing false again, onProcessingComplete called exactly
\* once, with the result list) whatever items failed, and no exception
\* leaves processImages.
C4_RunCompletes ==
    /\ [](pc # "thrown")
    /\ [](isProcessing => handed = <<>>)
    /\ [](Completed => ~isProcessing /\ handed = <<results>> /\ processedImages = results)
    /\ (isProcessing ~> (Completed /\ ~isProcessing /\ Len(handed) = 1))

\* C4 witness: a run in which every item failed has completed
C4_Witness ==
    Completed /\ ~isProcessing /\ Len(handed) = 1 /\ Cardinality(failed) = nFiles

\* the upscale request of the item just finished failed
UpscaleFailed(c) ==
    \/ c.upNet \in {"reject", "badjson"}
    \/ c.upNet = "reply" /\ ~c.upscale[1].body.success
\* the outcome of the item just finished is the basic result of process-image
FallsBack(c) ==
    /\ (i - 1) \notin failed
    /\ LastOutcomeOf(i - 1)
    /\ ~results[Len(results)].wasUpscaled
    /\ results[Len(results)].downloadUrl = c.process[1].body.downloadUrl
    /\ results[Len(results)].finalSize = c.process[1].body.finalSize
    /\ results[Len(results)].scaleFactor = FracOne
\* the upscale step inside process-image failed for the request in api
ApiInnerUpscaleFailed ==
    LET st == api.req.settings
        final == ResizeTarget(Dim(api.req.file.width, api.req.file.height),
                              st.maxDimension).finalSize
        up == UpscaleWithReplicate(st.fileName, final, st.targetSize, api.env, 0)
    IN  up.threw \/ ~up.result.success

\* C5: when process-image succeeded for an item, a failure of the upscale step
\* (provider error status, network failure, unrecognized or unreadable answer,
\* missing token) leaves the item successful and pointing at the basic
\* artifact: wasUpscaled false, downloadUrl and finalSize as process-image
\* returned them.  The same holds for the upscale step inside process-image.
C5_UpscaleFailureFallsBack ==
    /\ (cur.upNet \in {"reject", "badjson", "reply"} /\ UpscaleFailed(cur)) => FallsBack(cur)
    /\ (api.endpoint = "process-image" /\ "upscale" \in api.reply.stages
        /\ ApiInnerUpscaleFailed) =>
          /\ api.reply.status = 200
          /\ api.reply.body.success
          /\ ~api.reply.body.wasUpscaled
          /\ api.reply.body.finalSize =
                ResizeTarget(Dim(api.req.file.width, api.req.file.height),
                             api.req.settings.maxDimension).finalSize
          /\ \E k \in api.reply.processed :
                k.pre = "" /\ api.reply.body.downloadUrl = ServeUrl(k)

\* C5 witness: the provider answered with an error status and the item's
\* outcome is the basic result
C5_Witness ==
    /\ cur.upNet = "reply"
    /\ cur.upEnv[1].token /\ cur.upEnv[1].image = "ok"
    /\ cur.upEnv[1].provider.net = "json" /\ ~cur.upEnv[1].provider.ok
    /\ ~cur.upscale[1].body.success
    /\ FallsBack(cur)

\* the scale factor the upscale step computes for a request
ScaleOf(req) == Frac(req.targetSize, MaxSide(req.currentSize))
\* an outcome that reports no error
NonError(body) == body.success \/ "error" \notin DOMAIN body

\* C6, first half: the provider is submitted to only if upscaling is enabled
\* and the larger side after the resize is strictly below targetSize, that
\* is, only if the computed scaleFactor is above 1.
ProviderOnlyWhenSmaller ==
    /\ cur.upNet # "none" =>
          /\ settings.enableUpscaling
          /\ MaxSide(cur.process[1].body.finalSize) < settings.targetSize
          /\ FracLT(FracOne, ScaleOf(cur.upReq[1]))
    /\ (cur.upNet = "reply" /\ cur.upscale[1].providerScale # <<>>) =>
          /\ settings.enableUpscaling
          /\ FracLT(FracOne, ScaleOf(cur.upReq[1]))
    /\ (api.endpoint = "upscale-image" /\ api.reply.providerScale # <<>>) =>
          /\ MaxSide(api.req.currentSize) < api.req.targetSize
          /\ FracLT(FracOne, ScaleOf(api.req))
    /\ (api.endpoint = "process-image" /\ api.reply.providerScale # <<>>) =>
          /\ api.req.settings.enableUpscaling
          /\ MaxSide(api.reply.body.originalSize) > 0
          /\ MaxSide(ResizeTarget(api.reply.body.originalSize,
                                  api.req.settings.maxDimension).finalSize)
                < api.req.settings.targetSize

\* C6 (as stated): ... and when scaleFactor <= 1 the upscale step returns a
\* non-error "nothing to do" outcome without calling the provider.
C6_NoOpIsNotAnError ==
    /\ ProviderOnlyWhenSmaller
    /\ (api.endpoint = "upscale-image" /\ api.env.token
        /\ FracLE(ScaleOf(api.req), FracOne)) =>
          /\ api.reply.providerScale = <<>>
          /\ NonError(api.reply.body)

\* C6 (amended): ... and when scaleFactor <= 1 the upscale step does not call
\* the provider and answers, with HTTP 200 and nothing thrown, success=false
\* and an error message ("Image already at target size", or the missing-token
\* message when REPLICATE_API_TOKEN is not set).
C6_NoOpWithoutProvider ==
    /\ ProviderOnlyWhenSmaller
    /\ (api.endpoint = "upscale-image" /\ FracLE(ScaleOf(api.req), FracOne)) =>
          /\ api.reply.providerScale = <<>>
          /\ api.reply.stages = {}
          /\ api.reply.status = 200
          /\ ~api.reply.body.success
          /\ api.reply.body.error =
                IF api.env.token THEN "Image already at target size"
                ELSE "REPLICATE_API_TOKEN not configured"

\* C6 witness: the upscale endpoint was asked to bring a 1300 px image to
\* 1300 px, with the token set
C6_Witness ==
    /\ api.endpoint = "upscale-image"
    /\ api.env.token
    /\ FracEQ(ScaleOf(api.req), FracOne)
    /\ api.reply.providerScale = <<>>

\* C7: in a run over N items a progress update follows every item, failed or
\* not; the k-th update carries k/N, so the values increase strictly, skip no
\* item and end at N/N.
C7_ProgressSequence ==
    /\ \A k \in 1..Len(progressUpdates) : progressUpdates[k] = Frac(k * 100, nFiles)
    /\ \A k \in 1..(Len(progressUpdates) - 1) :
          FracLT(progressUpdates[k], progressUpdates[k + 1])
    /\ isProcessing =>
          /\ Len(progressUpdates) = Len(results) + Cardinality(failed)
          /\ Len(progressUpdates) = i
          /\ progress = IF i = 0 THEN Frac(0, 1) ELSE progressUpdates[i]
    /\ Completed =>
          /\ Len(progressUpdates) = nFiles
          /\ progress = Frac(nFiles * 100, nFiles)
          /\ FracEQ(progress, Frac(100, 1))

\* C7 witness: a run of three items, the second failed, has ended with the
\* updates 1/3, 2/3, 3/3
C7_Witness ==
    /\ Completed
    /\ failed = {1}
    /\ progressUpdates = <<Frac(100, 3), Frac(200, 3), Frac(300, 3)>>

\* C8: while a run is Running at most one item is in flight: no request of
\* the next item is issued before every request of the current item has
\* settled, and no second run can be started while isProcessing is true.
C8_OneItemInFlight ==
    /\ Len(inflight) <= 1
    /\ inflight # <<>> =>
          /\ isProcessing
          /\ inflight[1].item = i
          /\ inflight[1].api =
                IF pc = "awaitProcess" THEN "process-image" ELSE "upscale-image"
          /\ pc \in {"awaitProcess", "awaitUpscale"}
    /\ pc \in {"idle", "loop", "done"} => inflight = <<>>
    /\ isProcessing <=> pc \in {"loop", "awaitProcess", "awaitUpscale"}
    /\ ENABLED Start => ~isProcessing /\ inflight = <<>>

\* C8 witness: the upscale request of the second item is the one request in
\* flight
C8_Witness ==
    /\ pc = "awaitUpscale"
    /\ i = 1
    /\ Len(inflight) = 1
    /\ inflight[1] = [api |-> "upscale-image", item |-> 1]

\* C9: an item that fails validation (larger than 50 MiB, or a MIME type
\* outside the supported set) gets a failed outcome at once and no further
\* stage runs for it: no decode, no resize, no storage write, no upscale call.
C9_InvalidItemStopsAtValidation ==
    (cur.processNet = "reply" /\ ~ValidateImageFile(cur.file[1]).valid) =>
        /\ cur.process[1].status # 200
        /\ ~cur.process[1].body.success
        /\ cur.process[1].stages = {}
        /\ cur.process[1].uploads = {}
        /\ cur.process[1].processed = {}
        /\ cur.upNet = "none"

\* an empty JSON object
EmptyJsonObject(j) == j.t = "obj" /\ DOMAIN j.v = {}

\* C10: when the provider answers with an empty object, the upscale step
\* reports failure (success=false) and the item's outcome is still successful,
\* with wasUpscaled=false and the downloadUrl of the basic artifact.
C10_EmptyObjectFallsBack ==
    (/\ cur.upNet = "reply"
     /\ cur.upEnv[1].token
     /\ cur.upEnv[1].image = "ok"
     /\ cur.upEnv[1].provider.net = "json"
     /\ EmptyJsonObject(cur.upEnv[1].provider.body)) =>
        /\ ~cur.upscale[1].body.success
        /\ cur.upscale[1].providerScale # <<>>
        /\ (i - 1) \notin failed
        /\ LastOutcomeOf(i - 1)
        /\ ~results[Len(results)].wasUpscaled
        /\ results[Len(results)].downloadUrl = cur.process[1].body.downloadUrl
        /\ results[Len(results)].preview = cur.process[1].body.preview

\* C10 witness: the provider answered {} with status 200 for the item just
\* finished
C10_Witness ==
    /\ cur.upNet = "reply"
    /\ cur.upEnv[1].token
    /\ cur.upEnv[1].image = "ok"
    /\ cur.upEnv[1].provider.net = "json"
    /\ cur.upEnv[1].provider.ok
    /\ EmptyJsonObject(cur.upEnv[1].provider.body)
    /\ LastOutcomeOf(i - 1)

\* ---------------------------------------------------------- C11 .. C13
\* the provider was reached for the item just finished and answered in JSON
BatchProviderAnswered ==
    /\ cur.upNet = "reply"
    /\ cur.upEnv[1].token
    /\ cur.upEnv[1].image = "ok"
    /\ cur.upEnv[1].provider.net = "json"
\* the shapes of an answer that carries a URL
ShapeString(j) == j.t = "str"
ShapeObjectField(j) ==
    j.t = "obj" /\ \E k \in DOMAIN j.v \cap {"url", "stringValue"} : j.v[k].t = "str"
ShapeArrayFirst(j) == j.t = "arr" /\ Len(j.v) > 0 /\ j.v[1].t = "str"
ShapePlain(j) == ShapeString(j) \/ ShapeObjectField(j) \/ ShapeArrayFirst(j)
ShapeStatusWrapped(j) ==
    /\ j.t = "obj"
    /\ {"status", "output"} \subseteq DOMAIN j.v
    /\ j.v.status \in {JStr(Text("succeeded")), JStr(Text("processing"))}
    /\ ShapePlain(j.v.output)
\* the one shape the upscale-image handler takes a URL from: a prediction
\* that succeeded or is processing, its output a string or a non-empty array
ShapeStatusWrappedStringOrArray(j) ==
    /\ j.t = "obj"
    /\ {"status", "output"} \subseteq DOMAIN j.v
    /\ j.v.status \in {JStr(Text("succeeded")), JStr(Text("processing"))}
    /\ ShapeString(j.v.output) \/ ShapeArrayFirst(j.v.output)
\* the item just finished was upscaled and points at the provider's URL
OutcomeUpscaledTo(u) ==
    /\ LastOutcomeOf(i - 1)
    /\ results[Len(results)].wasUpscaled
    /\ results[Len(results)].downloadUrl = u
\* the upscale step failed, surfacing the provider's raw answer
FailsWithRawAnswer(reply, answer) ==
    /\ ~reply.body.success
    /\ "replicateRawOutput" \in DOMAIN reply.body
    /\ reply.body.replicateRawOutput = answer

\* C11 (as stated): for a batch item, an answer of the provider that carries a
\* URL as a plain string, in a URL field of an object, as the first element of
\* an array, or status-wrapped around one of these, is resolved to that URL;
\* any other answer fails with an error that surfaces the raw answer.
C11_ResolvesEveryRecognizedShape ==
    (BatchProviderAnswered /\ cur.upEnv[1].provider.ok) =>
        LET answer == cur.upEnv[1].provider.body
        IN  IF ShapePlain(answer) \/ ShapeStatusWrapped(answer)
            THEN /\ cur.upscale[1].body.success
                 /\ cur.upscale[1].body.downloadUrl = ProviderUrl
                 /\ OutcomeUpscaledTo(ProviderUrl)
            ELSE FailsWithRawAnswer(cur.upscale[1], answer)

\* C11 (amended): for a batch item the upscale step (the upscale-image
\* handler) resolves a URL only from a status-wrapped answer, status succeeded
\* or processing, whose output is a string or an array with a first element;
\* a plain string, an object with a URL field, an array, a status-wrapped
\* object field and every other answer fail with an error that surfaces the
\* raw answer.  The upscale step inside process-image resolves a plain
\* string, then the fields url and stringValue, then the first element of an
\* array, and nothing else.
C11_ResolvesStatusWrappedOnly ==
    /\ BatchProviderAnswered =>
          LET answer == cur.upEnv[1].provider.body
          IN  IF cur.upEnv[1].provider.ok /\ ShapeStatusWrappedStringOrArray(answer)
              THEN /\ cur.upscale[1].body.success
                   /\ cur.upscale[1].body.downloadUrl = ProviderUrl
                   /\ OutcomeUpscaledTo(ProviderUrl)
              ELSE /\ FailsWithRawAnswer(cur.upscale[1], answer)
                   /\ LastOutcomeOf(i - 1)
                   /\ ~results[Len(results)].wasUpscaled
    /\ (/\ api.endpoint = "process-image"
        /\ api.reply.providerScale # <<>>
        /\ ~api.env.sdk.threw
        /\ api.reply.status = 200) =>
          (~ShapePlain(api.env.sdk.output) => ~api.reply.body.wasUpscaled)
          /\ (api.reply.body.wasUpscaled => ShapePlain(api.env.sdk.output))

\* C11 witness: the provider answered a batch item with a plain URL string
\* and status 200, and the item's outcome is the basic result
C11_Witness ==
    /\ BatchProviderAnswered
    /\ cur.upEnv[1].provider.ok
    /\ ShapeString(cur.upEnv[1].provider.body)
    /\ FailsWithRawAnswer(cur.upscale[1], JStr(ProviderUrl))
    /\ LastOutcomeOf(i - 1)

\* C12: for every successfully upscaled item the finalSize of the outcome is
\* the measured size of the image the provider returned, also when the scale
\* sent to the provider was clamped to 4.
C12_FinalSizeIsMeasured ==
    (cur.upNet = "reply" /\ cur.upscale[1].body.success) =>
        /\ LastOutcomeOf(i - 1)
        /\ results[Len(results)].wasUpscaled
        /\ results[Len(results)].finalSize =
              ProviderOutputSize(cur.upReq[1].currentSize, cur.upscale[1].providerScale)

\* the scale the provider is to be given for a computed factor f
ClampedTo4(f) == IF f[1] > 4 * f[2] THEN Frac(4, 1) ELSE f
\* a submitted scale is the clamped factor and lies in (1, 4]
SentScaleIsClamped(sent, f) ==
    /\ sent = ClampedTo4(f)
    /\ FracLT(FracOne, sent)
    /\ FracLE(sent, Frac(4, 1))

\* C13: the scale sent to the provider is min(targetSize / currentMax, 4), so
\* it lies in (1, 4]; the scaleFactor recorded in the item's outcome is the
\* unclamped targetSize / currentMax.
C13_ClampedScaleUnclampedFactor ==
    /\ (cur.upNet = "reply" /\ cur.upscale[1].providerScale # <<>>) =>
          /\ SentScaleIsClamped(cur.upscale[1].providerScale, ScaleOf(cur.upReq[1]))
          /\ cur.upscale[1].body.success =>
                /\ LastOutcomeOf(i - 1)
                /\ results[Len(results)].scaleFactor =
                      Frac(settings.targetSize, MaxSide(cur.process[1].body.finalSize))
    /\ (api.endpoint = "upscale-image" /\ api.reply.providerScale # <<>>) =>
          /\ SentScaleIsClamped(api.reply.providerScale, ScaleOf(api.req))
          /\ api.reply.body.success => api.reply.body.scaleFactor = ScaleOf(api.req)
    /\ (api.endpoint = "process-image" /\ api.reply.providerScale # <<>>) =>
          LET f == Frac(api.req.settings.targetSize,
                        MaxSide(ResizeTarget(api.reply.body.originalSize,
                                             api.req.settings.maxDimension).finalSize))
          IN  /\ SentScaleIsClamped(api.reply.providerScale, f)
              /\ api.reply.body.wasUpscaled => api.reply.body.scaleFactor = f

\* C13 witness: a 400 px item was upscaled towards 2560 px: 4 was sent to the
\* provider and the outcome records 6.4
C13_Witness ==
    /\ cur.upNet = "reply"
    /\ cur.upscale[1].body.success
    /\ cur.upscale[1].providerScale = Frac(4, 1)
    /\ LastOutcomeOf(i - 1)
    /\ results[Len(results)].scaleFactor = Frac(2560, 400)

\* ---------------------------------------------------------- C14 .. C20
\* the last download was an archive built for the component
Archived == download.kind = "archive"
\* the bytes of the k-th requested image could be resolved when the archive
\* was built: the remote fetch was OK, or a local file of that name was there
Resolvable(k) ==
    IF StartsWithHttp(download.images[k].downloadUrl)
    THEN download.fetched[k] = "ok"
    ELSE \E f \in download.dir : f.name = download.images[k].name
\* the requested images that could be resolved, in request order
ResolvableImages ==
    LET Test(k) == Resolvable(k)
    IN  SelectSeq([k \in 1..Len(download.images) |-> k], Test)

\* C14: createArchive never fails because of one item: an item whose bytes
\* cannot be resolved (remote fetch not OK or throwing, no local file) is
\* skipped, every resolvable item is appended, and the archive is produced.
C14_ArchiveSkipsUnresolvable ==
    Archived =>
        /\ download.status = 200
        /\ Len(download.entries) = Len(ResolvableImages)
        /\ \A j \in 1..Len(download.entries) :
              download.entries[j].name.base = download.images[ResolvableImages[j]].name

\* C14 witness: of two requested images one could not be fetched (the fetch
\* threw) and the other is the one entry of the archive
C14_Witness ==
    /\ Archived
    /\ Len(download.images) = 2
    /\ \E k \in 1..2 : download.fetched[k] = "reject"
    /\ Len(download.entries) = 1
    /\ download.status = 200

\* every artifact of the outcomes was present when the archive was built
AllArtifactsPresent ==
    \A k \in 1..Len(download.images) :
        LET u == download.images[k].downloadUrl
        IN  IF StartsWithHttp(u) THEN download.fetched[k] = "ok"
            ELSE u.key \in download.dir

\* C15: for the k outcomes of a completed run whose artifacts are all still
\* present, createArchive produces an archive of exactly k entries, the entry
\* of each outcome named "<processedName>.png".
C15_OneEntryPerOutcome ==
    (Archived /\ AllArtifactsPresent) =>
        /\ download.status = 200
        /\ Len(download.entries) = Len(processedImages)
        /\ \A k \in 1..Len(processedImages) :
              download.entries[k].name =
                  [base |-> processedImages[k].processedName, ext |-> ".png"]

\* C15 witness: an archive of two entries, one read from a local file and one
\* fetched from the provider
C15_Witness ==
    /\ Archived
    /\ AllArtifactsPresent
    /\ Len(processedImages) = 2
    /\ Len(download.entries) = 2
    /\ \E j, k \in 1..2 :
          download.entries[j].local # {} /\ download.entries[k].remote # <<>>

\* a cleanup callback runs in this step
CleanupStep == timers # <<>> /\ timers' = Tail(timers)
\* files are deleted in this step
DeletionStep == ~(uploads \subseteq uploads') \/ ~(processed \subseteq processed')

\* C16: the cleanup scheduled by an archive request deletes only the
\* temporary files of the run whose outcomes were archived, never a file of
\* another run or client.
C16_CleanupDeletesOwnRunOnly ==
    [][CleanupStep =>
          /\ (uploads \ uploads') \subseteq Head(timers).owned.uploads
          /\ (processed \ processed') \subseteq Head(timers).owned.processed]_vars

\* an archive request of the component is handled in this step
ArchiveStep == download' # download /\ download'.kind = "archive"
\* an archive request of another client is handled in this step
DirectArchiveStep == api' # api /\ api'.endpoint = "download-all"

C18_StoreReclaimed ==
    (Completed /\ timers = <<>>) =>
        /\ owned.uploads \cap uploads = {}
        /\ owned.processed \cap processed = {}

\* a reply of process-image reaches the component in this step
ProcessReplyStep == cur.processNet = "pending" /\ cur'.processNet = "reply"

\* C19: the store is append-only while runs are in progress: no write of
\* process-image targets a name that already holds a file, for items of one
\* run, of repeated runs, and of clients that use the same names.
C19_WritesNeverCollide ==
    [][ProcessReplyStep => Clobbered(cur'.process[1]) = NoFiles]_vars

\* C20: downloadOne on an outcome that is still offered returns the bytes of
\* its artifact at any later time, also after the archive was downloaded and
\* its cleanup timer has fired.
C20_DownloadOneAlwaysServes ==
    (download.kind = "one" /\ download.local) =>
        /\ download.status = 200
        /\ download.file = <<processedImages[download.item].downloadUrl.key>>

\* ---------------------------------------------------------- C21 .. C30
\* the size process-image gives an image of size originalSize
ProcessedSize(originalSize, maxDimension) ==
    ResizeTarget(originalSize, maxDimension).finalSize
\* an outcome (or a reply body) o produced under the settings st: not
\* upscaled, it is the processed artifact itself; upscaled, upscaling was
\* asked for, the processed image was below the target and the factor is
\* above 1
OutcomeConsistent(o, st) ==
    /\ ~o.wasUpscaled =>
          /\ o.scaleFactor = FracOne
          /\ o.finalSize = ProcessedSize(o.originalSize, st.maxDimension)
          /\ ~StartsWithHttp(o.downloadUrl)
          /\ o.downloadUrl.key.pre = ""
          /\ o.downloadUrl.key.name = o.processedName
    /\ o.wasUpscaled =>
          /\ st.enableUpscaling
          /\ MaxSide(ProcessedSize(o.originalSize, st.maxDimension)) < st.targetSize
          /\ FracLT(FracOne, o.scaleFactor)
    /\ (st.enableUpscaling
        /\ st.targetSize <= MaxSide(ProcessedSize(o.originalSize, st.maxDimension)))
          => ~o.wasUpscaled

\* C21: in every item outcome of a run, wasUpscaled = false comes with
\* scaleFactor = 1 and the downloadUrl and finalSize of the processed
\* artifact; wasUpscaled = true comes with upscaling enabled, a processed
\* image below targetSize and scaleFactor > 1; with the target at or below
\* the current size the outcome is not upscaled.  The same holds for the
\* body process-image answers with when it upscales itself.
C21_OutcomeConsistent ==
    /\ \A k \in 1..Len(results) : OutcomeConsistent(results[k], settings)
    /\ \A h \in 1..Len(handed) :
          \A k \in 1..Len(handed[h]) : OutcomeConsistent(handed[h][k], settings)
    /\ (pc \in {"loop", "done"} /\ LastOutcomeOf(i - 1) /\ cur.processNet = "reply"
        /\ ~results[Len(results)].wasUpscaled) =>
          /\ results[Len(results)].downloadUrl = cur.process[1].body.downloadUrl
          /\ results[Len(results)].finalSize = cur.process[1].body.finalSize
          /\ results[Len(results)].downloadUrl.key \in cur.process[1].processed
    /\ (api.endpoint = "process-image" /\ api.reply.status = 200) =>
          /\ OutcomeConsistent(api.reply.body, api.req.settings)
          /\ ~api.reply.body.wasUpscaled =>
                api.reply.body.downloadUrl.key \in api.reply.processed

\* C21 witness: a run with upscaling enabled and target 1300 has ended with
\* one outcome upscaled (400 px) and one left as processed (1300 px)
C21_Witness ==
    /\ Completed
    /\ settings.enableUpscaling
    /\ \E a, b \in 1..Len(results) :
          /\ results[a].wasUpscaled
          /\ ~results[b].wasUpscaled
          /\ MaxSide(results[b].finalSize) = settings.targetSize

\* a call of calculateResizeDimensions has returned
Resized == call.fn = "calculateResizeDimensions"
\* r is n / d rounded to the nearest integer, a half upward
IsRoundHalfUp(r, n, d) == 2 * d * r - d <= 2 * n /\ 2 * n < 2 * d * r + d
\* r is an integer nearest to n / d (either neighbour of an exact half)
IsNearest(r, n, d) == 2 * d * r - d <= 2 * n /\ 2 * n <= 2 * d * r + d
\* n / d lies exactly halfway between two integers
IsHalf(n, d) == (2 * n) % d = 0 /\ ((2 * n) \div d) % 2 = 1

\* C22 (as stated): calculateResizeDimensions(d, m) returns (d, false) when
\* max(d) <= m, and otherwise wasResized = true with each axis equal to
\* round(axis * m / max(d)), the larger axis being m.
C22_AxesRoundedExactly ==
    Resized =>
        LET d == call.input.d
            m == call.input.m
            r == call.result
        IN  IF MaxSide(d) <= m
            THEN r.dimensions = d /\ ~r.wasResized
            ELSE /\ r.wasResized
                 /\ IsRoundHalfUp(r.dimensions.width, d.width * m, MaxSide(d))
                 /\ IsRoundHalfUp(r.dimensions.height, d.height * m, MaxSide(d))
                 /\ MaxSide(r.dimensions) = m

\* C22 (amended): ... each axis is Math.round(axis * (m / max(d))) in double
\* arithmetic: it equals round(axis * m / max(d)) unless axis * m / max(d) is
\* exactly a half, where it is one of the two nearest integers; the larger
\* axis is m.
C22_AxesRoundedInDoubles ==
    Resized =>
        LET d == call.input.d
            m == call.input.m
            r == call.result
        IN  IF MaxSide(d) <= m
            THEN r.dimensions = d /\ ~r.wasResized
            ELSE /\ r.wasResized
                 /\ IsNearest(r.dimensions.width, d.width * m, MaxSide(d))
                 /\ IsNearest(r.dimensions.height, d.height * m, MaxSide(d))
                 /\ ~IsHalf(d.width * m, MaxSide(d)) =>
                       IsRoundHalfUp(r.dimensions.width, d.width * m, MaxSide(d))
                 /\ ~IsHalf(d.height * m, MaxSide(d)) =>
                       IsRoundHalfUp(r.dimensions.height, d.height * m, MaxSide(d))
                 /\ MaxSide(r.dimensions) = m

\* C22 witness: 11 x 22 resized to 15: 11 * (15 / 22) is 7.499999999999999
\* as a double and the width is 7
C22_Witness ==
    /\ Resized
    /\ call.input.d = Dim(11, 22) /\ call.input.m = 15
    /\ call.result = [dimensions |-> Dim(7, 15), wasResized |-> TRUE]

\* C23: every size the resize computation produces has width >= 1 and
\* height >= 1, whatever the aspect ratio.
C23_AxesPositive ==
    Resized => call.result.dimensions.width >= 1 /\ call.result.dimensions.height >= 1

\* a call of validateImageFile has returned
Validated == call.fn = "validateImageFile"

\* C24 (as stated): valid = true exactly when the size is at most 50 MiB and
\* the type is supported; every file above 50 MiB is rejected with "File too
\* large" and every file of an unsupported type with the list of formats.
C24_EveryLargeFileTooLarge ==
    Validated =>
        LET f == call.input.file
            r == call.result
        IN  /\ r.valid <=> (f.size <= MAX_FILE_SIZE /\ f.type \in SupportedTypes)
            /\ f.size > MAX_FILE_SIZE => (~r.valid /\ r.error = "File too large")
            /\ f.type \notin SupportedTypes =>
                  (~r.valid /\ r.error = "Unsupported file type")

\* C24 (amended): ... every file of a supported type above 50 MiB is rejected
\* with "File too large"; every file of an unsupported type, of any size,
\* with the list of formats.
C24_TypeCheckedFirst ==
    Validated =>
        LET f == call.input.file
            r == call.result
        IN  /\ r.valid <=> (f.size <= MAX_FILE_SIZE /\ f.type \in SupportedTypes)
            /\ (f.size > MAX_FILE_SIZE /\ f.type \in SupportedTypes) =>
                  (~r.valid /\ r.error = "File too large")
            /\ f.type \notin SupportedTypes =>
                  (~r.valid /\ r.error = "Unsupported file type")

\* C24 witness: a PDF above 50 MiB was rejected for its type
C24_Witness ==
    /\ Validated
    /\ call.input.file.type = "application/pdf"
    /\ call.input.file.size > MAX_FILE_SIZE
    /\ call.result = [valid |-> FALSE, error |-> "Unsupported file type"]

\* generateProcessedFileName is called in this step
NameCallStep == call' # call /\ call'.fn = "generateProcessedFileName"

\* C25: generateProcessedFileName is a pure function: a call with the
\* arguments of the call before it returns what that call returned, whatever
\* the clock reads.
C25_SameInputSameName ==
    [][(NameCallStep /\ call.fn = "generateProcessedFileName"
        /\ call'.input = call.input) => call'.result = call.result]_vars

\* C26: the resize target the process-image handler computes inline equals
\* calculateResizeDimensions(originalSize, maxDimension): the same width and
\* height and the same wasResized flag.
C26_InlineResizeAgrees ==
    Resized =>
        LET inline == ResizeTarget(call.input.d, call.input.m)
        IN  /\ inline.finalSize = call.result.dimensions
            /\ inline.wasResized = call.result.wasResized

\* C26 witness: one pixel above maxDimension both resize; at maxDimension
\* neither would
C26_Witness ==
    /\ Resized
    /\ MaxSide(call.input.d) = call.input.m + 1
    /\ call.result.wasResized
    /\ ResizeTarget(call.input.d, call.input.m).wasResized

\* C27: each archive entry holds the bytes of the artifact of the outcome it
\* is named after: the file read into the entry of a local outcome is the
\* file its downloadUrl names, not a file of another item or of an earlier
\* run whose name contains processedName.
C27_EntryHoldsOwnArtifact ==
    Archived =>
        \A j \in 1..Len(download.entries) :
            download.entries[j].remote = <<>> =>
                \A k \in 1..Len(download.images) :
                    download.images[k].name = download.entries[j].name.base =>
                        download.entries[j].local = {download.images[k].downloadUrl.key}

\* C30: a process-image request that ends with a failed outcome leaves the
\* two directories as they were: no file it wrote remains.
C30_FailedRequestLeavesNoFile ==
    [][(ProcessReplyStep /\ cur'.process[1].status # 200) =>
          (uploads' = uploads /\ processed' = processed)]_vars

\* every request the server has entered is answered
NoRequestInProgress == \A r \in 1..Len(requests) : requests[r].pc = "returned"
\* the r-th request is answered in this step
ReturnStep(r) ==
    /\ r \in 1..Len(requests)
    /\ requests[r].pc # "returned"
    /\ Len(requests') = Len(requests)
    /\ requests'[r].pc = "returned"

\* C28: the redirection of console.log is temporary on every path: when a
\* request has returned, whichever way it ended, and no other request is in
\* progress, console.log is the function it was before the request started.
C28_ConsoleLogRestored ==
    [][\A r \in 1..MaxRequests + 1 :
          (ReturnStep(r) /\ NoRequestInProgress') =>
              consoleLog' = requests[r].originalLog]_vars

\* C29: for any interleaving of process-image requests, the consoleLogs
\* returned for a request holds only messages logged while handling that
\* request, and once all requests have returned console.log is the original
\* function.
C29_LogsIsolated ==
    /\ \A r \in 1..Len(requests) :
          requests[r].pc = "returned" =>
              \A k \in 1..Len(requests[r].reply[1].consoleLogs) :
                  requests[r].reply[1].consoleLogs[k].by = r
    /\ NoRequestInProgress => consoleLog = OriginalLog

====
